---- MODULE Spec2Model ----
(***************************************************************************)
(* Event-sourced stream-processing core of stream-agents:                  *)
(*   capture -> events (ledger) -> outbox forwarder -> events.raw          *)
(*           -> {router, materializer};                                    *)
(*   router -> work.<stage> -> worker -> events (completion | work.failed) *)
(* The relational database is the variable db (one field per table), the   *)
(* bus is topicEvents / topicWork / topicDLQ.                              *)
(***************************************************************************)
EXTENDS Integers, Sequences, FiniteSets, TLC

(* ---------------- bounds of the model ---------------- *)
MaxCaptures == 3       \* capture requests in the forwarder-only specification
MaxFwdFaults == 1      \* mark-forwarded failures / forwarder crashes
MaxMatFaults == 2      \* failed statements / crashes of the materializer
BatchLimit == 2        \* stands for LIMIT 50 of the forwarder's SELECT
MaxEvents == 3         \* ledger length when events are appended freely
MaxPathLen == 4        \* tokens in the path of a posted URL
MaxTicks == 3          \* advances of the fetcher's clock
MaxRequests == 3       \* HTTP requests the fetcher issues

(* ---------------- program constants ---------------- *)
NumPartitions == 3             \* events.raw partitions
MAX_RETRIES == 3               \* materializer, attempts per message
FWD_MAX_RETRIES == 5           \* forwarder, consecutive failed cycles
BASE_DELAY_MS == 1000          \* forwarder, first backoff delay
DEFAULT_MAX_RETRIES == 3       \* retry:failed, retries per link
RATE_LIMIT_MS == 1000          \* fetcher, interval per hostname

Subjects == {"link:a", "link:b"}
Partitions == 0 .. (NumPartitions - 1)
WorkTypes == {"fetch_link", "enrich_link", "publish_link"}
Null == "null"

VARIABLES
  events,            \* lifestream.events, in insertion order (append-only)
  forwarded,         \* ids of events with published_to_kafka = true
  clock,             \* wall clock read by now() / new Date()
  topicEvents,       \* events.raw: partition -> sequence of records
  topicWork,         \* work.<type>: work type -> sequence of work messages
  topicDLQ,          \* work.dead_letter
  db,                \* projections and bookkeeping tables
  fwdPc, fwdBatch, consecutiveErrors,          \* outbox forwarder
  routerPos,         \* router's consumer position per partition
  workerPos,         \* each worker's consumer position on its work topic
  matPc, matPos, matCur, matAttempt, matStep,  \* materializer
  targetOffset, hasSeekPerformed,
  applied,           \* history: (partition, offset) -> completed projections
  captures, faults,  \* capture requests and faults still to come
  snapshot,          \* history: projections when reset-bus was run
  boot,              \* history: where the last boot should and did start
  requests,          \* share-link endpoint: client -> request in progress
  dateNow,           \* Date.now() of the fetcher's host, in ms
  lastFetchByDomain, \* fetcher: hostname -> time of the last fetch
  fetchCur,          \* fetcher: hostname of the request in flight
  outbound,          \* history: the HTTP requests the fetcher has issued
  delay,             \* forwarder: ms of the backoff computed by the catch
  exitCode           \* forwarder: argument of process.exit, once called

\* exitCode while process.exit has not been called
NotExited == 0 - 1

fwdVars == <<fwdPc, fwdBatch, consecutiveErrors, delay, exitCode>>
matVars == <<matPc, matPos, matCur, matAttempt, matStep, targetOffset,
             hasSeekPerformed, boot>>
busVars == <<topicEvents, topicWork, topicDLQ>>
vars == <<events, forwarded, clock, topicEvents, topicWork, topicDLQ, db,
          fwdPc, fwdBatch, consecutiveErrors, routerPos, workerPos,
          matPc, matPos, matCur, matAttempt, matStep, targetOffset,
          hasSeekPerformed, applied, captures, faults, snapshot, boot,
          requests, dateNow, lastFetchByDomain, fetchCur, outbound,
          delay, exitCode>>
fetchVars == <<dateNow, lastFetchByDomain, fetchCur, outbound>>

(* ---------------- identity ---------------- *)
\* a URL string is the sequence of its lexical tokens; the empty string is
\* what JavaScript tests as a missing url
NoUrl == <<>>

Schemes == {"https:", "HTTPS:", "http:"}
Hosts == {"example.com", "Example.com"}
Ports == {":443", ":80", ":8080"}
PathTokens == {"/", "a"}

\* query parameters, in the order Array.prototype.sort gives their entries
Params == <<"a=1", "b=2">>
ParamTokens == {Params[k] : k \in 1 .. Len(Params)}

ToLowerCase(t) ==
  CASE t = "HTTPS:" -> "https:"
    [] t = "Example.com" -> "example.com"
    [] OTHER -> t

RECURSIVE TakeWhile(_, _)
TakeWhile(seq, S) ==
  IF seq # <<>> /\ Head(seq) \in S
    THEN <<Head(seq)>> \o TakeWhile(Tail(seq), S) ELSE <<>>

Drop(seq, n) == SubSeq(seq, n + 1, Len(seq))

\* new URL(url): the components of a string the parser accepts
PortOf(url) == IF Len(url) >= 4 /\ url[4] \in Ports THEN <<url[4]>> ELSE <<>>

AfterAuthority(url) == Drop(url, 3 + Len(PortOf(url)))

RawPath(url) == TakeWhile(AfterAuthority(url), PathTokens)

AfterPath(url) == Drop(AfterAuthority(url), Len(RawPath(url)))

\* new URL(url) does not throw
IsUrl(url) ==
  /\ Len(url) >= 3
  /\ url[1] \in Schemes /\ url[2] = "//" /\ url[3] \in Hosts
  /\ AfterAuthority(url) # <<>> => Head(AfterAuthority(url)) \in {"/", "?", "#"}

\* parsed.pathname: a special scheme always has a path
Pathname(url) == IF RawPath(url) = <<>> THEN <<"/">> ELSE RawPath(url)

\* parsed.search without the question mark
Search(url) ==
  IF AfterPath(url) # <<>> /\ Head(AfterPath(url)) = "?"
    THEN TakeWhile(Tail(AfterPath(url)), ParamTokens \cup {"&"})
    ELSE <<>>

\* [...new URLSearchParams(search).entries()].sort()
RECURSIVE SortedFrom(_, _)
SortedFrom(entries, k) ==
  IF k > Len(Params) THEN <<>>
  ELSE SelectSeq(entries, LAMBDA t : t = Params[k])
         \o SortedFrom(entries, k + 1)

SortedEntries(search) ==
  SortedFrom(SelectSeq(search, LAMBDA t : t # "&"), 1)

\* URLSearchParams.toString
RECURSIVE Join(_)
Join(entries) ==
  IF Len(entries) <= 1 THEN entries
  ELSE <<Head(entries), "&">> \o Join(Tail(entries))

\* parsed.toString() after the assignments of normalizeUrl
Href(url) ==
  LET protocol == ToLowerCase(url[1])
      port == IF \/ protocol = "http:" /\ PortOf(url) = <<":80">>
                 \/ protocol = "https:" /\ PortOf(url) = <<":443">>
                THEN <<>> ELSE PortOf(url)
      search == Join(SortedEntries(Search(url)))
  IN <<protocol, "//", ToLowerCase(url[3])>> \o port \o Pathname(url)
       \o (IF search = <<>> THEN <<>> ELSE <<"?">> \o search)

\* mutant: the URL is stored and hashed as it was typed
normalizeUrl_Raw(url) == url

normalizeUrl(url) ==
  IF ~IsUrl(url) THEN url
  ELSE LET normalized == Href(url) IN
       IF normalized[Len(normalized)] = "/" /\ Pathname(url) # <<"/">>
         THEN SubSeq(normalized, 1, Len(normalized) - 1)
         ELSE normalized

\* the first 16 hex digits of SHA-256: equal inputs have equal digests and
\* the distinct inputs of the model different ones
sha256Short(input) == ToString(input)

linkSubjectId(url) == "link:" \o sha256Short(normalizeUrl(url))

\* link:a and link:b stand for the subject ids of two fixed URLs
UrlOf(s) ==
  IF s = "link:a" THEN <<"https:", "//", "example.com", "/", "a">>
  ELSE <<"https:", "//", "example.com", "/", "a", "a">>

\* kafkajs default partitioner: hash of the key modulo the partition count
PartitionOf(s) == IF s = "link:a" THEN 0 ELSE 1

(* ---------------- work messages ---------------- *)
NoPayload == [url |-> NoUrl, text_content |-> Null]

NoWork == [subject_id |-> Null, work_type |-> Null, correlation_id |-> 0,
           triggered_by_event_id |-> 0, attempt |-> 0, max_attempts |-> 0,
           created_at |-> 0, last_error |-> Null, payload |-> NoPayload]

DEFAULT_MAX_ATTEMPTS == [t \in WorkTypes |-> 3]

\* mutant: attempts counted from 0
createWorkMessage_ZeroBased(workType, subjectId, triggeredByEventId, correlationId, payload, now) ==
  [subject_id |-> subjectId, work_type |-> workType,
   correlation_id |-> correlationId,
   triggered_by_event_id |-> triggeredByEventId,
   attempt |-> 0, max_attempts |-> DEFAULT_MAX_ATTEMPTS[workType],
   created_at |-> now, last_error |-> Null, payload |-> payload]

createWorkMessage(workType, subjectId, triggeredByEventId, correlationId, payload, now) ==
  [subject_id |-> subjectId, work_type |-> workType,
   correlation_id |-> correlationId,
   triggered_by_event_id |-> triggeredByEventId,
   attempt |-> 1, max_attempts |-> DEFAULT_MAX_ATTEMPTS[workType],
   created_at |-> now, last_error |-> Null, payload |-> payload]

\* mutant: the retry keeps the creation time and last_error of the original
createRetryWorkMessage_Stale(originalWork, error, now) ==
  [originalWork EXCEPT !.attempt = originalWork.attempt + 1]

createRetryWorkMessage(originalWork, error, now) ==
  [originalWork EXCEPT !.attempt = originalWork.attempt + 1,
                       !.created_at = now,
                       !.last_error = error]

createDeadLetterMessage(originalWork, finalError, agent, now) ==
  [original_work |-> originalWork, final_error |-> finalError,
   failed_at |-> now, agent |-> agent]

\* mutant: one attempt too many
shouldRetry_Inclusive(work) == work.attempt <= work.max_attempts

shouldRetry(work) == work.attempt < work.max_attempts

(* ---------------- event ledger ---------------- *)
EmptyEventPayload ==
  [url |-> NoUrl, url_norm |-> NoUrl, text_content |-> Null,
   fetch_error |-> Null, tags |-> <<>>,
   work_message |-> NoWork, error |-> Null, agent |-> Null,
   visibility |-> Null, celsius |-> Null]

\* INSERT INTO lifestream.events: id and received_at are column defaults,
\* published_to_kafka defaults to false (the id is not in forwarded)
NewEvent(eventType, source, subjectId, payload, correlationId, now) ==
  [id |-> Len(events) + 1, occurred_at |-> now, received_at |-> now,
   source |-> source, subject_id |-> subjectId, event_type |-> eventType,
   payload |-> payload, correlation_id |-> correlationId]

EventIds == 1 .. Len(events)

\* JSON.stringify(e) of an event row and JSON.parse of a record value
JSONStringify(e, published) ==
  <<e.id, e.occurred_at, e.received_at, e.source, e.subject_id,
    e.event_type, e.payload, e.correlation_id, published>>

JSONParse(v) ==
  [id |-> v[1], occurred_at |-> v[2], received_at |-> v[3], source |-> v[4],
   subject_id |-> v[5], event_type |-> v[6], payload |-> v[7],
   correlation_id |-> v[8]]

(* ---------------- database tables ---------------- *)
\* a table is a function from the primary keys present to the row
HasRow(table, key) == key \in DOMAIN table

Upsert(table, key, row) ==
  [k \in (DOMAIN table) \cup {key} |-> IF k = key THEN row ELSE table[k]]

\* mutant: ON CONFLICT DO UPDATE instead of DO NOTHING
InsertIfAbsent_Replace(table, key, row) == Upsert(table, key, row)

\* INSERT .. ON CONFLICT (key) DO NOTHING
InsertIfAbsent(table, key, row) ==
  IF HasRow(table, key) THEN table ELSE Upsert(table, key, row)

EmptyTable == [k \in {} |-> Null]

EmptyDb ==
  [subjects |-> EmptyTable, links |-> EmptyTable,
   link_content |-> EmptyTable, link_metadata |-> EmptyTable,
   publish_state |-> EmptyTable,
   temperature_readings |-> EmptyTable,  \* <<subject_id, occurred_at>> -> row
   temperature_latest |-> EmptyTable,
   event_ingest_dedupe |-> {},      \* set of <<partition, kafka_offset>>
   kafka_offsets |-> EmptyTable]    \* partition -> last_offset

\* the read model: every table but the Kafka bookkeeping
Projections(d) ==
  [subjects |-> d.subjects, links |-> d.links,
   link_content |-> d.link_content, link_metadata |-> d.link_metadata,
   publish_state |-> d.publish_state,
   temperature_readings |-> d.temperature_readings,
   temperature_latest |-> d.temperature_latest]

(* ---------------- ingestion endpoint ---------------- *)
Clients == {"c1", "c2"}

NoRequest ==
  [pc |-> "idle", url |-> NoUrl, url_norm |-> NoUrl, subject_id |-> Null]

\* supabase upsert = INSERT .. ON CONFLICT DO UPDATE of the columns given
CaptureLinkRow(d, s) ==
  IF HasRow(d.links, s)
    THEN [d.links[s] EXCEPT !.status = "new", !.visibility = "public",
                            !.pinned = FALSE, !.url = UrlOf(s),
                            !.url_norm = normalizeUrl(UrlOf(s))]
    ELSE [status |-> "new", visibility |-> "public", pinned |-> FALSE,
          retry_count |-> 0, last_error |-> Null, url |-> UrlOf(s),
          url_norm |-> normalizeUrl(UrlOf(s))]

Capture(s) ==
  /\ captures > 0
  /\ captures' = captures - 1
  /\ clock' = clock + 1
  /\ db' = [db EXCEPT
              !.subjects = Upsert(@, s, [visibility |-> "public"]),
              !.links = Upsert(@, s, CaptureLinkRow(db, s))]
  /\ events' = Append(events,
        NewEvent("link.added", "chrome", s,
                 [EmptyEventPayload EXCEPT
                    !.url = UrlOf(s), !.url_norm = normalizeUrl(UrlOf(s))],
                 0, clock'))
  /\ UNCHANGED <<forwarded, busVars, fwdVars, routerPos, workerPos, matVars,
                 applied, faults, snapshot, requests, fetchVars>>

(* ---------------- outbox forwarder ---------------- *)
RECURSIVE Unpublished(_)
\* ids of the events with published_to_kafka = false among the first n,
\* ORDER BY received_at ASC
Unpublished(n) ==
  IF n = 0 THEN <<>>
  ELSE IF n \in forwarded THEN Unpublished(n - 1)
       ELSE Append(Unpublished(n - 1), n)

Take(seq, n) == SubSeq(seq, 1, IF Len(seq) < n THEN Len(seq) ELSE n)

SelectUnpublished == Take(Unpublished(Len(events)), BatchLimit)

Message(i) ==
  [key |-> events[i].subject_id,
   value |-> JSONStringify(events[i], FALSE),
   headers |-> [event_type |-> events[i].event_type,
                source |-> events[i].source]]

RECURSIVE ProducerSend(_, _)
\* producer.send: each message is appended to the partition of its key
ProducerSend(topic, batch) ==
  IF batch = <<>> THEN topic
  ELSE LET m == Message(Head(batch))
           p == PartitionOf(m.key)
       IN ProducerSend([topic EXCEPT ![p] = Append(@, m)], Tail(batch))

FwdRead ==
  /\ fwdPc = "idle"
  /\ fwdBatch' = SelectUnpublished
  /\ IF fwdBatch' = <<>>
       THEN fwdPc' = "sleep" /\ consecutiveErrors' = 0
       ELSE fwdPc' = "send" /\ UNCHANGED consecutiveErrors
  /\ delay' = 0
  /\ UNCHANGED exitCode
  /\ UNCHANGED <<events, forwarded, clock, busVars, db, routerPos, workerPos,
                 matVars, applied, captures, faults, snapshot, requests,
                 fetchVars>>

FwdSend ==
  /\ fwdPc = "send"
  /\ topicEvents' = ProducerSend(topicEvents, fwdBatch)
  /\ fwdPc' = "mark"
  /\ UNCHANGED <<events, forwarded, clock, topicWork, topicDLQ, db, fwdBatch,
                 consecutiveErrors, delay, exitCode, routerPos, workerPos,
                 matVars, applied, captures, faults, snapshot, requests,
                 fetchVars>>

\* Math.min(BASE_DELAY_MS * Math.pow(2, consecutiveErrors - 1), 30000)
BackoffDelay(k) ==
  LET d == BASE_DELAY_MS * 2 ^ (k - 1) IN IF d < 30000 THEN d ELSE 30000

\* catch block: count the failure, give up after MAX_RETRIES in a row
FwdCatch ==
  /\ consecutiveErrors' = consecutiveErrors + 1
  /\ delay' = BackoffDelay(consecutiveErrors')
  /\ fwdPc' = IF consecutiveErrors' >= FWD_MAX_RETRIES THEN "exited"
              ELSE "idle"
  /\ UNCHANGED exitCode

\* mutant: the catch path marks the batch although the send failed
FwdSendFail_Marks ==
  /\ fwdPc = "send"
  /\ FwdCatch
  /\ forwarded' = forwarded \cup {fwdBatch[k] : k \in 1 .. Len(fwdBatch)}
  /\ UNCHANGED <<events, clock, busVars, db, fwdBatch, routerPos,
                 workerPos, matVars, applied, captures, faults, snapshot,
                 requests, fetchVars>>

FwdSendFail ==
  /\ fwdPc = "send"
  /\ FwdCatch
  /\ UNCHANGED <<events, forwarded, clock, busVars, db, fwdBatch, routerPos,
                 workerPos, matVars, applied, captures, faults, snapshot,
                 requests, fetchVars>>

\* mutant: UPDATE .. WHERE published_to_kafka = false, not WHERE id = ANY(ids)
FwdMark_All ==
  /\ fwdPc = "mark"
  /\ forwarded' = EventIds
  /\ consecutiveErrors' = 0
  /\ fwdPc' = "sleep"
  /\ UNCHANGED <<events, clock, busVars, db, fwdBatch, delay, exitCode,
                 routerPos, workerPos, matVars, applied, captures, faults,
                 snapshot, requests, fetchVars>>

FwdMark ==
  /\ fwdPc = "mark"
  /\ forwarded' = forwarded \cup {fwdBatch[k] : k \in 1 .. Len(fwdBatch)}
  /\ consecutiveErrors' = 0
  /\ fwdPc' = "sleep"
  /\ UNCHANGED <<events, clock, busVars, db, fwdBatch, delay, exitCode,
                 routerPos, workerPos, matVars, applied, captures, faults,
                 snapshot, requests, fetchVars>>

FwdMarkFail ==
  /\ fwdPc = "mark"
  /\ faults > 0
  /\ faults' = faults - 1
  /\ FwdCatch
  /\ UNCHANGED <<events, forwarded, clock, busVars, db, fwdBatch, routerPos,
                 workerPos, matVars, applied, captures, snapshot, requests,
                 fetchVars>>

FwdWake ==
  /\ fwdPc = "sleep"
  /\ fwdPc' = "idle"
  /\ UNCHANGED <<events, forwarded, clock, busVars, db, fwdBatch,
                 consecutiveErrors, delay, exitCode, routerPos, workerPos,
                 matVars, applied, captures, faults, snapshot, requests,
                 fetchVars>>

\* the process is killed between two statements of a cycle
FwdCrash ==
  /\ fwdPc \in {"send", "mark"}
  /\ faults > 0
  /\ faults' = faults - 1
  /\ fwdPc' = "exited"
  /\ UNCHANGED <<events, forwarded, clock, busVars, db, fwdBatch,
                 consecutiveErrors, delay, exitCode, routerPos, workerPos, matVars, applied,
                 captures, snapshot, requests, fetchVars>>

\* the supervisor starts main() again
FwdRestart ==
  /\ fwdPc = "exited"
  /\ fwdPc' = "idle"
  /\ fwdBatch' = <<>>
  /\ consecutiveErrors' = 0
  /\ delay' = 0
  /\ exitCode' = NotExited
  /\ UNCHANGED <<events, forwarded, clock, busVars, db, routerPos, workerPos,
                 matVars, applied, captures, faults, snapshot, requests,
                 fetchVars>>

(* ---------------- router ---------------- *)
\* mutant: the router never finds the content
contentAlreadyFetched_Never(d, subjectId) == FALSE

contentAlreadyFetched(d, subjectId) == HasRow(d.link_content, subjectId)

alreadyEnriched(d, subjectId) ==
  /\ HasRow(d.link_metadata, subjectId)
  /\ Len(d.link_metadata[subjectId].tags) > 0

alreadyPublished(d, subjectId) ==
  /\ HasRow(d.publish_state, subjectId)
  /\ d.publish_state[subjectId].published_version
        >= d.publish_state[subjectId].desired_version
  /\ d.publish_state[subjectId].dirty = FALSE

\* mutant: the router always starts a new correlation at the event it handles
CorrelationOf_EventId(event) == event.id

\* event.correlation_id ?? event.id
CorrelationOf(event) ==
  IF event.correlation_id = 0 THEN event.id ELSE event.correlation_id

\* the work message the router's handler emits for an event (NoWork: none)
routerHandleLinkAdded(event, d, now) ==
  IF event.payload.url = NoUrl THEN NoWork
  ELSE IF contentAlreadyFetched(d, event.subject_id) THEN NoWork
  ELSE createWorkMessage("fetch_link", event.subject_id, event.id,
                         CorrelationOf(event),
                         [NoPayload EXCEPT !.url = event.payload.url], now)

routerHandleContentFetched(event, d, now) ==
  IF event.payload.fetch_error # Null THEN NoWork
  ELSE IF event.payload.text_content \in {Null, ""} THEN NoWork
  ELSE IF alreadyEnriched(d, event.subject_id) THEN NoWork
  ELSE createWorkMessage("enrich_link", event.subject_id, event.id,
                         CorrelationOf(event),
                         [NoPayload EXCEPT
                            !.text_content = event.payload.text_content],
                         now)

routerHandleEnrichmentCompleted(event, d, now) ==
  IF alreadyPublished(d, event.subject_id) THEN NoWork
  ELSE createWorkMessage("publish_link", event.subject_id, event.id,
                         CorrelationOf(event), NoPayload, now)

\* mutant: a failed command is dead-lettered without asking shouldRetry
handleWorkFailed_NoRetry(event, now) ==
  LET work_message == event.payload.work_message IN
  IF work_message = NoWork THEN <<NoWork, <<>>>>
  ELSE <<NoWork,
         <<createDeadLetterMessage(work_message, event.payload.error,
                                   event.payload.agent, now)>>>>

\* handleWorkFailed: <<retry work or NoWork, dead letters>>
handleWorkFailed(event, now) ==
  LET work_message == event.payload.work_message IN
  IF work_message = NoWork THEN <<NoWork, <<>>>>
  ELSE IF shouldRetry(work_message)
    THEN <<createRetryWorkMessage(work_message, event.payload.error, now),
           <<>>>>
    ELSE <<NoWork,
           <<createDeadLetterMessage(work_message, event.payload.error,
                                     event.payload.agent, now)>>>>

\* processEvent of the router: <<work message or NoWork, dead letters>>
routerProcessEvent(event, d, now) ==
  CASE event.event_type = "link.added" ->
         <<routerHandleLinkAdded(event, d, now), <<>>>>
    [] event.event_type = "content.fetched" ->
         <<routerHandleContentFetched(event, d, now), <<>>>>
    [] event.event_type = "enrichment.completed" ->
         <<routerHandleEnrichmentCompleted(event, d, now), <<>>>>
    [] event.event_type = "work.failed" -> handleWorkFailed(event, now)
    [] OTHER -> <<NoWork, <<>>>>

\* emitWorkMessage: the topic of the work type, one message
emitWorkMessage(topics, workMessage) ==
  IF workMessage = NoWork THEN topics
  ELSE [topics EXCEPT ![workMessage.work_type] = Append(@, workMessage)]

RouterHandle(p) ==
  /\ routerPos[p] < Len(topicEvents[p])
  /\ LET event == JSONParse(topicEvents[p][routerPos[p] + 1].value)
         out == routerProcessEvent(event, db, clock + 1)
     IN /\ topicWork' = emitWorkMessage(topicWork, out[1])
        /\ topicDLQ' = topicDLQ \o out[2]
        /\ clock' = IF out[1] = NoWork /\ out[2] = <<>> THEN clock
                    ELSE clock + 1
  /\ routerPos' = [routerPos EXCEPT ![p] = @ + 1]
  /\ UNCHANGED <<events, forwarded, topicEvents, db, fwdVars, workerPos,
                 matVars, applied, captures, faults, snapshot, requests,
                 fetchVars>>

(* ---------------- workers ---------------- *)
\* outcomes of fetchAndExtract, of enrichContent and of the publisher's insert
\* fetchAndExtract on a valid response without an extractable article
ExtractionError == "Readability could not parse article"

FetchResults ==
  { [textContent |-> "text", error |-> Null],
    [textContent |-> Null, error |-> "Timeout"],
    [textContent |-> Null, error |-> ExtractionError] }

EnrichResults ==
  { [tags |-> <<"x", "y">>, has_tags |-> TRUE, error |-> Null],
    [tags |-> <<>>, has_tags |-> FALSE, error |-> "OpenAI error"] }

\* enrichContent returns JSON.parse(content) unvalidated: a response that is
\* valid JSON without a tags array
UntaggedEnrichment == [tags |-> <<>>, has_tags |-> FALSE, error |-> Null]

\* newTags.filter(..) outside updateTagCatalog's try block
TagCatalogError == "undefined is not an object (evaluating 'newTags.filter')"

PublishResults == { [error |-> Null], [error |-> "insert failed"] }

\* source column of the events an agent inserts
AgentSource(agent) ==
  CASE agent = "fetcher" -> "agent:fetcher"
    [] agent = "enricher" -> "agent:enricher"
    [] OTHER -> "agent:publisher"

emitWorkFailed(workMessage, error, agent, now) ==
  NewEvent("work.failed", AgentSource(agent), workMessage.subject_id,
           [EmptyEventPayload EXCEPT !.work_message = workMessage,
                                     !.error = error,
                                     !.agent = agent],
           workMessage.correlation_id, now)

emitContentFetched(subjectId, result, correlationId, now) ==
  NewEvent("content.fetched", "agent:fetcher", subjectId,
           [EmptyEventPayload EXCEPT !.text_content = result.textContent,
                                     !.fetch_error = result.error],
           correlationId, now)

emitEnrichmentCompleted(subjectId, result, correlationId, now) ==
  NewEvent("enrichment.completed", "agent:enricher", subjectId,
           [EmptyEventPayload EXCEPT !.tags = result.tags],
           correlationId, now)

emitPublishCompleted(subjectId, correlationId, now) ==
  NewEvent("publish.completed", "agent:publisher", subjectId, EmptyEventPayload,
           correlationId, now)

\* fetcher handleMessage: the events it appends for a work message
fetcherHandleMessage(workMessage, result, now) ==
  IF workMessage.payload.url = NoUrl THEN <<>>
  ELSE IF result.error # Null /\ result.textContent \in {Null, ""}
    THEN <<emitWorkFailed(workMessage, result.error, "fetcher", now)>>
    ELSE <<emitContentFetched(workMessage.subject_id, result,
                              workMessage.correlation_id, now)>>

\* the insert of emitEnrichmentCompleted is done when updateTagCatalog runs;
\* an exception of either reaches the catch block, which emits work.failed
enricherHandleWorkMessage(workMessage, result, now) ==
  IF workMessage.payload.text_content \in {Null, ""} THEN <<>>
  ELSE IF result.error # Null
    THEN <<emitWorkFailed(workMessage, result.error, "enricher", now)>>
  ELSE IF ~result.has_tags
    THEN <<emitEnrichmentCompleted(workMessage.subject_id, result,
                                   workMessage.correlation_id, now),
           [emitWorkFailed(workMessage, TagCatalogError, "enricher", now + 1)
              EXCEPT !.id = @ + 1]>>
    ELSE <<emitEnrichmentCompleted(workMessage.subject_id, result,
                                   workMessage.correlation_id, now)>>

publisherHandleMessage(workMessage, result, now) ==
  IF result.error # Null
    THEN <<emitWorkFailed(workMessage, result.error, "publisher", now)>>
    ELSE <<emitPublishCompleted(workMessage.subject_id,
                                workMessage.correlation_id, now)>>

\* a worker consumes one work message and appends what its handler emits
WorkerStep(workType, appended) ==
  /\ events' = events \o appended
  /\ clock' = clock + Len(appended)
  /\ workerPos' = [workerPos EXCEPT ![workType] = @ + 1]
  /\ UNCHANGED <<forwarded, busVars, db, fwdVars, routerPos, matVars,
                 applied, captures, faults, snapshot, requests, fetchVars>>

FetcherHandle(result) ==
  /\ workerPos["fetch_link"] < Len(topicWork["fetch_link"])
  /\ WorkerStep("fetch_link",
       fetcherHandleMessage(
         topicWork["fetch_link"][workerPos["fetch_link"] + 1], result,
         clock + 1))

EnricherHandle(result) ==
  /\ workerPos["enrich_link"] < Len(topicWork["enrich_link"])
  /\ WorkerStep("enrich_link",
       enricherHandleWorkMessage(
         topicWork["enrich_link"][workerPos["enrich_link"] + 1], result,
         clock + 1))

PublisherHandle(result) ==
  /\ workerPos["publish_link"] < Len(topicWork["publish_link"])
  /\ WorkerStep("publish_link",
       publisherHandleMessage(
         topicWork["publish_link"][workerPos["publish_link"] + 1], result,
         clock + 1))

(* ---------------- materializer: projection statements ---------------- *)
Truthy(str) == str \notin {Null, ""}

Coalesce(new, old) == IF new # Null THEN new ELSE old

\* the SQL statements of each projection handler, in program order
handleLinkAdded(event) ==
  IF event.payload.url = NoUrl THEN <<>>
  ELSE <<"subjects_insert", "links_insert">>

handleContentFetched(event) == <<"link_content_upsert", "links_update_fetch">>

handleEnrichmentCompleted(event) ==
  <<"link_metadata_upsert", "links_update_enriched", "publish_state_upsert">>

\* mutant: publish.completed leaves the link status alone
handlePublishCompleted_NoStatus(event) == <<"publish_state_update">>

handlePublishCompleted(event) ==
  <<"publish_state_update", "links_update_published">>

handleTempReading(event) ==
  IF event.payload.celsius = Null THEN <<>>
  ELSE <<"sensor_subject_insert", "temperature_readings_insert",
         "temperature_latest_upsert">>

processEvent(event) ==
  CASE event.event_type = "link.added" -> handleLinkAdded(event)
    [] event.event_type = "content.fetched" -> handleContentFetched(event)
    [] event.event_type = "enrichment.completed" ->
         handleEnrichmentCompleted(event)
    [] event.event_type = "publish.completed" ->
         handlePublishCompleted(event)
    [] event.event_type = "temp.reading_recorded" ->
         handleTempReading(event)
    [] OTHER -> <<>>

\* link_content and link_metadata reference links(subject_id)
ForeignKeyViolation(stmt, event, d) ==
  /\ stmt \in {"link_content_upsert", "link_metadata_upsert"}
  /\ ~HasRow(d.links, event.subject_id)

LinkContentRow(event, d) ==
  LET s == event.subject_id IN
  IF HasRow(d.link_content, s)
    THEN [text_content |-> Coalesce(event.payload.text_content,
                                    d.link_content[s].text_content),
          fetch_error |-> event.payload.fetch_error]
    ELSE [text_content |-> event.payload.text_content,
          fetch_error |-> event.payload.fetch_error]

\* mutant: ON CONFLICT DO UPDATE SET tags = EXCLUDED.tags
LinkMetadataRow_Overwrite(event, d) == [tags |-> event.payload.tags]

LinkMetadataRow(event, d) ==
  LET s == event.subject_id IN
  IF HasRow(d.link_metadata, s)
    THEN [tags |-> IF Len(event.payload.tags) > 0 THEN event.payload.tags
                   ELSE IF d.link_metadata[s].tags # <<>>
                          THEN d.link_metadata[s].tags
                          ELSE event.payload.tags]
    ELSE [tags |-> event.payload.tags]

\* mutant: the upsert of temperature_latest without its WHERE clause
TemperatureLatestRow_Always(event, d) ==
  [occurred_at |-> event.occurred_at, celsius |-> event.payload.celsius]

\* ON CONFLICT (subject_id) DO UPDATE .. WHERE latest.occurred_at <
\* EXCLUDED.occurred_at
TemperatureLatestRow(event, d) ==
  LET s == event.subject_id
      excluded == [occurred_at |-> event.occurred_at,
                   celsius |-> event.payload.celsius]
  IN IF HasRow(d.temperature_latest, s)
          /\ ~(d.temperature_latest[s].occurred_at < excluded.occurred_at)
       THEN d.temperature_latest[s]
       ELSE excluded

\* mutant: the upsert leaves dirty as it is (false on insert)
PublishStateRow_KeepsDirty(event, d) ==
  LET s == event.subject_id IN
  IF HasRow(d.publish_state, s)
    THEN [d.publish_state[s] EXCEPT !.desired_version = @ + 1]
    ELSE [desired_version |-> 1, published_version |-> 0, dirty |-> FALSE]

PublishStateRow(event, d) ==
  LET s == event.subject_id IN
  IF HasRow(d.publish_state, s)
    THEN [d.publish_state[s] EXCEPT !.desired_version = @ + 1,
                                    !.dirty = TRUE]
    ELSE [desired_version |-> 1, published_version |-> 0, dirty |-> TRUE]

ExecStmt(stmt, event, d) ==
  LET s == event.subject_id
      \* UPDATE table SET .. WHERE subject_id = key AND cond
      UpdateWhere(table, key, Cond(_), Set(_)) ==
        IF HasRow(table, key) /\ Cond(table[key])
          THEN [table EXCEPT ![key] = Set(table[key])]
          ELSE table
      Always(row) == TRUE
      IsNew(row) == row.status = "new"
      IsNewOrFetched(row) == row.status \in {"new", "fetched"}
      SetError(row) == [row EXCEPT !.status = "error",
                                   !.retry_count = @ + 1,
                                   !.last_error = event.payload.fetch_error]
      SetFetched(row) == [row EXCEPT !.status = "fetched",
                                     !.last_error = Null]
      SetEnriched(row) == [row EXCEPT !.status = "enriched"]
      SetPublished(row) == [row EXCEPT !.status = "published"]
      SetPublishedVersion(row) ==
        [row EXCEPT !.published_version = row.desired_version,
                    !.dirty = FALSE]
  IN
  CASE stmt = "subjects_insert" ->
         [d EXCEPT !.subjects =
            InsertIfAbsent(@, s, [visibility |-> "public"])]
    [] stmt = "links_insert" ->
         [d EXCEPT !.links =
            InsertIfAbsent(@, s,
              [status |-> "new", visibility |-> "public", pinned |-> FALSE,
               retry_count |-> 0, last_error |-> Null,
               url |-> event.payload.url,
               url_norm |-> IF event.payload.url_norm # NoUrl
                              THEN event.payload.url_norm
                              ELSE normalizeUrl(event.payload.url)])]
    [] stmt = "link_content_upsert" ->
         [d EXCEPT !.link_content = Upsert(@, s, LinkContentRow(event, d))]
    [] stmt = "links_update_fetch" ->
         IF Truthy(event.payload.fetch_error)
           THEN [d EXCEPT !.links = UpdateWhere(@, s, Always, SetError)]
           ELSE [d EXCEPT !.links = UpdateWhere(@, s, IsNew, SetFetched)]
    [] stmt = "link_metadata_upsert" ->
         [d EXCEPT !.link_metadata = Upsert(@, s, LinkMetadataRow(event, d))]
    [] stmt = "links_update_enriched" ->
         [d EXCEPT !.links = UpdateWhere(@, s, IsNewOrFetched, SetEnriched)]
    [] stmt = "publish_state_upsert" ->
         [d EXCEPT !.publish_state = Upsert(@, s, PublishStateRow(event, d))]
    [] stmt = "publish_state_update" ->
         [d EXCEPT !.publish_state =
            UpdateWhere(@, s, Always, SetPublishedVersion)]
    [] stmt = "links_update_published" ->
         [d EXCEPT !.links = UpdateWhere(@, s, Always, SetPublished)]
    [] stmt = "sensor_subject_insert" ->
         [d EXCEPT !.subjects =
            InsertIfAbsent(@, s, [visibility |-> "private"])]
    [] stmt = "temperature_readings_insert" ->
         [d EXCEPT !.temperature_readings =
            InsertIfAbsent(@, <<s, event.occurred_at>>,
                           [celsius |-> event.payload.celsius])]
    [] stmt = "temperature_latest_upsert" ->
         [d EXCEPT !.temperature_latest =
            Upsert(@, s, TemperatureLatestRow(event, d))]

\* recordProcessed: two statements
RecordDedupe(d, partition, offset) ==
  [d EXCEPT !.event_ingest_dedupe = @ \cup {<<partition, offset>>}]

RecordOffset(d, partition, offset) ==
  [d EXCEPT !.kafka_offsets = Upsert(@, partition, offset)]

recordProcessed(d, partition, offset) ==
  RecordOffset(RecordDedupe(d, partition, offset), partition, offset)

isAlreadyProcessed(d, partition, offset) ==
  <<partition, offset>> \in d.event_ingest_dedupe

RECURSIVE RunStmts(_, _, _)
\* the statements of a handler run in order; a throwing statement ends the
\* run and leaves the earlier writes in place (no transaction is opened)
RunStmts(stmts, event, d) ==
  IF stmts = <<>> THEN d
  ELSE IF ForeignKeyViolation(Head(stmts), event, d) THEN d
  ELSE RunStmts(Tail(stmts), event, ExecStmt(Head(stmts), event, d))

RECURSIVE Completes(_, _, _)
\* no statement of the run throws
Completes(stmts, event, d) ==
  IF stmts = <<>> THEN TRUE
  ELSE IF ForeignKeyViolation(Head(stmts), event, d) THEN FALSE
  ELSE Completes(Tail(stmts), event, ExecStmt(Head(stmts), event, d))

(* ---------------- materializer: consumer ---------------- *)
Max(S) == CHOOSE x \in S : \A y \in S : y <= x

\* offsets available on a partition: [low, high)
EarliestOffset(p) == 0

LatestOffset(p) == Len(topicEvents[p])

MessageAt(p, offset) == topicEvents[p][offset + 1]

\* calculateTargetOffset reads the ledger and the range of partition 0 only
DesiredOffset(d) ==
  LET recorded == {k[2] : k \in {x \in d.event_ingest_dedupe : x[1] = 0}}
  IN IF recorded = {} THEN 0 ELSE Max(recorded) + 1

calculateTargetOffset(d) ==
  LET desiredOffset == DesiredOffset(d) IN
  IF desiredOffset < EarliestOffset(0)
    THEN [target |-> EarliestOffset(0), db |-> d]
  ELSE IF desiredOffset > LatestOffset(0)
    THEN [target |-> EarliestOffset(0),
          db |-> [d EXCEPT !.event_ingest_dedupe = {}]]
  ELSE [target |-> desiredOffset, db |-> d]

\* history: the offset each partition should start at after a boot, by the
\* recorded offsets of that partition and the partition's available range
RecordedNext(d, p) ==
  LET recorded == {k[2] : k \in {x \in d.event_ingest_dedupe : x[1] = p}}
  IN IF recorded = {} THEN 0 ELSE Max(recorded) + 1

ExpectedStart(d, p) ==
  IF RecordedNext(d, p) < EarliestOffset(p) THEN EarliestOffset(p)
  ELSE IF RecordedNext(d, p) > LatestOffset(p) THEN EarliestOffset(p)
  ELSE RecordedNext(d, p)

\* history: the first offset of partition p handed to handleMessage
Started(p, offset) ==
  IF boot.started[p] = -1
    THEN [boot EXCEPT !.started[p] = offset]
    ELSE boot

\* main(): compute the target, then subscribe fromBeginning with no
\* committed group offsets
MatBoot ==
  /\ matPc = "down"
  /\ LET r == calculateTargetOffset(db)
     IN targetOffset' = r.target /\ db' = r.db
  /\ hasSeekPerformed' = FALSE
  /\ matPos' = [p \in Partitions |-> EarliestOffset(p)]
  /\ matPc' = "idle"
  /\ matCur' = <<0, 0>>
  /\ matAttempt' = 0
  /\ matStep' = 0
  /\ boot' = [expected |-> [p \in Partitions |-> ExpectedStart(db, p)],
              truncated |->
                (\E p \in Partitions : RecordedNext(db, p) > LatestOffset(p))
                  => calculateTargetOffset(db).db.event_ingest_dedupe = {},
              started |-> [p \in Partitions |-> -1]]
  /\ UNCHANGED <<events, forwarded, clock, busVars, fwdVars, routerPos,
                 workerPos, applied, captures, faults, snapshot, requests,
                 fetchVars>>

\* a seek past the end of a partition is out of range; the consumer falls
\* back to the earliest offset (fromBeginning)
SeekTo(p, offset) == IF offset > LatestOffset(p) THEN EarliestOffset(p)
                     ELSE offset

\* eachMessage: the first message delivered is skipped when its offset
\* differs from the target, and its partition is moved to the target
SeekSkips(p) == ~hasSeekPerformed /\ matPos[p] # targetOffset

Bump(p, offset) ==
  Upsert(applied, <<p, offset>>,
         IF HasRow(applied, <<p, offset>>) THEN applied[<<p, offset>>] + 1
         ELSE 1)

\* handleMessage when every statement the database accepts succeeds
handleMessage(d, p, offset) ==
  LET event == JSONParse(MessageAt(p, offset).value) IN
  IF isAlreadyProcessed(d, p, offset) THEN d
  ELSE recordProcessed(RunStmts(processEvent(event), event, d), p, offset)

\* the whole eachMessage callback for the next message of partition p
MatHandle(p) ==
  /\ matPc = "idle"
  /\ matPos[p] < LatestOffset(p)
  /\ hasSeekPerformed' = TRUE
  /\ IF SeekSkips(p)
       THEN /\ matPos' = [matPos EXCEPT ![p] = SeekTo(p, targetOffset)]
            /\ UNCHANGED <<db, applied, boot>>
       ELSE /\ db' = handleMessage(db, p, matPos[p])
            /\ boot' = Started(p, matPos[p])
            /\ matPos' = [matPos EXCEPT ![p] = @ + 1]
            /\ LET event == JSONParse(MessageAt(p, matPos[p]).value)
               IN applied' =
                    IF /\ ~isAlreadyProcessed(db, p, matPos[p])
                       /\ Completes(processEvent(event), event, db)
                      THEN Bump(p, matPos[p]) ELSE applied
  /\ UNCHANGED <<events, forwarded, clock, busVars, fwdVars, routerPos,
                 workerPos, matPc, matCur, matAttempt, matStep, targetOffset,
                 captures, faults, snapshot, requests, fetchVars>>

(* the same callback, one database statement per step *)
CurEvent == JSONParse(MessageAt(matCur[1], matCur[2]).value)

\* handleMessage returns: the consumer moves past the message
MatReturn ==
  /\ matPc' = "idle"
  /\ matPos' = [matPos EXCEPT ![matCur[1]] = matCur[2] + 1]
  /\ matCur' = <<0, 0>>
  /\ matAttempt' = 0
  /\ matStep' = 0

\* control moves to pc inside handleMessage
MatGoto(pc, attempt, step) ==
  /\ matPc' = pc
  /\ matAttempt' = attempt
  /\ matStep' = step
  /\ UNCHANGED <<matPos, matCur>>

MatDeliver(p) ==
  /\ matPc = "idle"
  /\ matPos[p] < LatestOffset(p)
  /\ hasSeekPerformed' = TRUE
  /\ IF SeekSkips(p)
       THEN /\ matPos' = [matPos EXCEPT ![p] = SeekTo(p, targetOffset)]
            /\ UNCHANGED <<matPc, matCur, matAttempt, matStep, boot>>
       ELSE /\ matPc' = "check"
            /\ boot' = Started(p, matPos[p])
            /\ matCur' = <<p, matPos[p]>>
            /\ matAttempt' = 1
            /\ UNCHANGED <<matPos, matStep>>
  /\ UNCHANGED <<events, forwarded, clock, busVars, db, fwdVars, routerPos,
                 workerPos, targetOffset, applied, captures, faults,
                 snapshot, requests, fetchVars>>

\* mutant: the catch block retries without a limit
MatCatch_Unbounded ==
  IF matAttempt > MAX_RETRIES THEN MatReturn
  ELSE MatGoto("check", matAttempt + 1, 0)

\* catch block of handleMessage; an attempt number above MAX_RETRIES marks
\* the recordProcessed call made by the last catch
MatCatch ==
  IF matAttempt > MAX_RETRIES THEN MatReturn
  ELSE IF matAttempt = MAX_RETRIES THEN MatGoto("rec1", MAX_RETRIES + 1, 0)
  ELSE MatGoto("check", matAttempt + 1, 0)

MatCheck ==
  /\ matPc = "check"
  /\ IF isAlreadyProcessed(db, matCur[1], matCur[2])
       THEN MatReturn /\ UNCHANGED applied
       ELSE IF processEvent(CurEvent) = <<>>
         THEN /\ MatGoto("rec1", matAttempt, 0)
              /\ applied' = Bump(matCur[1], matCur[2])
         ELSE /\ MatGoto("stmt", matAttempt, 1)
              /\ UNCHANGED applied
  /\ UNCHANGED <<events, forwarded, clock, busVars, db, fwdVars, routerPos,
                 workerPos, targetOffset, hasSeekPerformed, captures, faults,
                 snapshot, requests,
                 boot, fetchVars>>

MatStmt ==
  /\ matPc = "stmt"
  /\ LET stmts == processEvent(CurEvent)
         stmt == stmts[matStep]
     IN IF ForeignKeyViolation(stmt, CurEvent, db)
          THEN MatCatch /\ UNCHANGED <<db, applied>>
          ELSE /\ db' = ExecStmt(stmt, CurEvent, db)
               /\ IF matStep = Len(stmts)
                    THEN /\ MatGoto("rec1", matAttempt, 0)
                         /\ applied' = Bump(matCur[1], matCur[2])
                    ELSE /\ MatGoto("stmt", matAttempt, matStep + 1)
                         /\ UNCHANGED applied
  /\ UNCHANGED <<events, forwarded, clock, busVars, fwdVars, routerPos,
                 workerPos, targetOffset, hasSeekPerformed, captures, faults,
                 snapshot, requests,
                 boot, fetchVars>>

MatRecordDedupe ==
  /\ matPc = "rec1"
  /\ db' = RecordDedupe(db, matCur[1], matCur[2])
  /\ MatGoto("rec2", matAttempt, 0)
  /\ UNCHANGED <<events, forwarded, clock, busVars, fwdVars, routerPos,
                 workerPos, targetOffset, hasSeekPerformed, applied,
                 captures, faults, snapshot, requests,
                 boot, fetchVars>>

MatRecordOffset ==
  /\ matPc = "rec2"
  /\ db' = RecordOffset(db, matCur[1], matCur[2])
  /\ MatReturn
  /\ UNCHANGED <<events, forwarded, clock, busVars, fwdVars, routerPos,
                 workerPos, targetOffset, hasSeekPerformed, applied,
                 captures, faults, snapshot, requests,
                 boot, fetchVars>>

\* the pending database statement fails
MatThrow ==
  /\ matPc \in {"check", "stmt", "rec1", "rec2"}
  /\ faults > 0
  /\ faults' = faults - 1
  /\ MatCatch
  /\ UNCHANGED <<events, forwarded, clock, busVars, db, fwdVars, routerPos,
                 workerPos, targetOffset, hasSeekPerformed, applied,
                 captures, snapshot, requests,
                 boot, fetchVars>>

\* the process is killed; the supervisor's restart is MatBoot
MatCrash ==
  /\ matPc \in {"check", "stmt", "rec1", "rec2"}
  /\ faults > 0
  /\ faults' = faults - 1
  /\ matPc' = "down"
  /\ UNCHANGED <<events, forwarded, clock, busVars, db, fwdVars, routerPos,
                 workerPos, matPos, matCur, matAttempt, matStep,
                 targetOffset, hasSeekPerformed, applied, captures,
                 snapshot, requests,
                 boot, fetchVars>>

\* shutdown(): the consumer is stopped between two messages (SIGTERM)
MatStop ==
  /\ matPc = "idle"
  /\ faults > 0
  /\ faults' = faults - 1
  /\ matPc' = "down"
  /\ UNCHANGED <<events, forwarded, clock, busVars, db, fwdVars, routerPos,
                 workerPos, matPos, matCur, matAttempt, matStep,
                 targetOffset, hasSeekPerformed, applied, captures,
                 snapshot, requests, boot, fetchVars>>

(* ---------------- properties ---------------- *)
\* every component has consumed all there is
Quiescent ==
  /\ forwarded = EventIds
  /\ fwdPc \in {"idle", "sleep"}
  /\ matPc = "idle"
  /\ \A p \in Partitions : /\ routerPos[p] = LatestOffset(p)
                           /\ matPos[p] = LatestOffset(p)
  /\ \A t \in WorkTypes : workerPos[t] = Len(topicWork[t])

(* ---------------- reset-bus ---------------- *)
EmptyTopics ==
  [events |-> [p \in Partitions |-> <<>>],
   work |-> [t \in WorkTypes |-> <<>>],
   dlq |-> <<>>]

\* reset_kafka main(), run with the components stopped: topics recreated,
\* every event unpublished, dedupe and offsets rows of the topics deleted
ResetBus ==
  /\ matPc = "idle"
  /\ fwdPc \in {"idle", "sleep"}
  /\ snapshot = <<>>
  /\ snapshot' = <<[projections |-> Projections(db),
                    quiescent |-> Quiescent,
                    events |-> Len(events)]>>
  /\ topicEvents' = EmptyTopics.events
  /\ topicWork' = EmptyTopics.work
  /\ topicDLQ' = EmptyTopics.dlq
  /\ forwarded' = {}
  /\ db' = [db EXCEPT !.event_ingest_dedupe = {},
                      !.kafka_offsets = EmptyTable]
  /\ routerPos' = [p \in Partitions |-> 0]
  /\ workerPos' = [t \in WorkTypes |-> 0]
  /\ matPc' = "down"
  /\ applied' = EmptyTable
  /\ UNCHANGED <<events, clock, fwdVars, matPos, matCur, matAttempt,
                 matStep, targetOffset, hasSeekPerformed, captures, faults,
                 boot, requests, fetchVars>>

(* ---------------- specifications ---------------- *)
InitWith(nCaptures, nFaults) ==
  /\ events = <<>>
  /\ forwarded = {}
  /\ clock = 0
  /\ topicEvents = EmptyTopics.events
  /\ topicWork = EmptyTopics.work
  /\ topicDLQ = EmptyTopics.dlq
  /\ db = EmptyDb
  /\ fwdPc = "idle"
  /\ fwdBatch = <<>>
  /\ consecutiveErrors = 0
  /\ routerPos = [p \in Partitions |-> 0]
  /\ workerPos = [t \in WorkTypes |-> 0]
  /\ matPc = "down"
  /\ matPos = [p \in Partitions |-> 0]
  /\ matCur = <<0, 0>>
  /\ matAttempt = 0
  /\ matStep = 0
  /\ targetOffset = 0
  /\ hasSeekPerformed = FALSE
  /\ applied = EmptyTable
  /\ captures = nCaptures
  /\ faults = nFaults
  /\ snapshot = <<>>
  /\ boot = [expected |-> [p \in Partitions |-> 0], truncated |-> TRUE,
             started |-> [p \in Partitions |-> -1]]
  /\ requests = [c \in Clients |-> NoRequest]
  /\ dateNow = RATE_LIMIT_MS
  /\ lastFetchByDomain = EmptyTable
  /\ fetchCur = Null
  /\ outbound = <<>>
  /\ delay = 0
  /\ exitCode = NotExited

\* one whole iteration of the forwarder's loop in which nothing fails
FwdCycle ==
  /\ fwdPc = "idle"
  /\ SelectUnpublished # <<>>
  /\ topicEvents' = ProducerSend(topicEvents, SelectUnpublished)
  /\ forwarded' = forwarded \cup
        {SelectUnpublished[k] : k \in 1 .. Len(SelectUnpublished)}
  /\ consecutiveErrors' = 0
  /\ delay' = 0
  /\ UNCHANGED <<events, clock, topicWork, topicDLQ, db, fwdPc, fwdBatch,
                 exitCode, routerPos, workerPos, matVars, applied, captures, faults,
                 snapshot, requests, fetchVars>>

\* one cycle whose send succeeds and whose UPDATE of published_to_kafka fails
FwdCycleMarkFails ==
  /\ fwdPc = "idle"
  /\ SelectUnpublished # <<>>
  /\ faults > 0
  /\ faults' = faults - 1
  /\ consecutiveErrors + 1 < FWD_MAX_RETRIES
  /\ consecutiveErrors' = consecutiveErrors + 1
  /\ delay' = BackoffDelay(consecutiveErrors')
  /\ topicEvents' = ProducerSend(topicEvents, SelectUnpublished)
  /\ UNCHANGED <<events, forwarded, clock, topicWork, topicDLQ, db, fwdPc,
                 fwdBatch, exitCode, routerPos, workerPos, matVars, applied, captures,
                 snapshot, requests, fetchVars>>

Ok(results) == {r \in results : r.error = Null}

\* router and workers; the units of work end as the results allow
Pipeline(fetch, enrich, publish) ==
  \/ \E p \in Partitions : RouterHandle(p)
  \/ \E r \in fetch : FetcherHandle(r)
  \/ \E r \in enrich : EnricherHandle(r)
  \/ \E r \in publish : PublisherHandle(r)

\* Spec: one captured link runs through the pipeline; any unit of work may
\* fail; no infrastructure fault
Init == InitWith(1, 0)

Next ==
  \/ Capture("link:a")
  \/ FwdCycle
  \/ Pipeline(FetchResults, EnrichResults, PublishResults)
  \/ MatBoot
  \/ \E p \in Partitions : MatHandle(p)

Spec == Init /\ [][Next]_vars

\* SpecFwd: the outbox forwarder alone, statement by statement, with failed
\* sends, failed updates and crashes
InitFwd == InitWith(MaxCaptures, MaxFwdFaults)

NextFwd ==
  \/ \E s \in Subjects : Capture(s)
  \/ FwdRead \/ FwdSend \/ FwdMark \/ FwdWake
  \/ FwdSendFail \/ FwdMarkFail \/ FwdCrash \/ FwdRestart

SpecFwd == InitFwd /\ [][NextFwd]_vars

\* the forwarder loop keeps running, is restarted after it exits, and a
\* send or a mark that is attempted again and again succeeds in the end
FairSpecFwd ==
  /\ SpecFwd
  /\ WF_vars(FwdRead) /\ WF_vars(FwdWake) /\ WF_vars(FwdRestart)
  /\ SF_vars(FwdSend) /\ SF_vars(FwdMark)

\* SpecDup: the pipeline without failing work, behind a forwarder whose
\* mark-forwarded update may fail
InitDup == InitWith(1, MaxFwdFaults)

NextDup ==
  \/ Capture("link:a")
  \/ FwdRead \/ FwdSend \/ FwdMark \/ FwdWake \/ FwdMarkFail
  \/ Pipeline(Ok(FetchResults), Ok(EnrichResults), Ok(PublishResults))
  \/ MatBoot
  \/ \E p \in Partitions : MatHandle(p)

SpecDup == InitDup /\ [][NextDup]_vars

\* SpecMat: the pipeline without failing work, the materializer statement
\* by statement with failed statements and crashes
InitMat == InitWith(1, MaxMatFaults)

NextMat ==
  \/ Capture("link:a")
  \/ FwdCycle
  \/ Pipeline(Ok(FetchResults), Ok(EnrichResults), Ok(PublishResults))
  \/ MatBoot
  \/ \E p \in Partitions : MatDeliver(p)
  \/ MatCheck \/ MatStmt \/ MatRecordDedupe \/ MatRecordOffset
  \/ MatThrow \/ MatCrash

SpecMat == InitMat /\ [][NextMat]_vars

\* SpecReset: the pipeline without failing work, and one run of reset-bus
InitReset == InitWith(1, 0)

NextReset ==
  \/ Capture("link:a")
  \/ FwdCycle
  \/ Pipeline(Ok(FetchResults), Ok(EnrichResults), Ok(PublishResults))
  \/ MatBoot
  \/ \E p \in Partitions : MatHandle(p)
  \/ ResetBus

SpecReset == InitReset /\ [][NextReset]_vars

\* SpecBoot: captured links of both subjects, forwarded and materialized,
\* with the materializer stopped and started again
InitBoot == InitWith(MaxCaptures, MaxMatFaults)

NextBoot ==
  \/ \E s \in Subjects : Capture(s)
  \/ FwdCycle
  \/ MatBoot
  \/ \E p \in Partitions : MatHandle(p)
  \/ MatStop

SpecBoot == InitBoot /\ [][NextBoot]_vars

\* SpecPoison: one link.added record whose statements may fail on every
\* attempt, and the recordProcessed of the last catch as well
InitPoison == InitWith(1, MAX_RETRIES + 1)

NextPoison ==
  \/ \E s \in Subjects : Capture(s)
  \/ FwdCycle
  \/ MatBoot
  \/ \E p \in Partitions : MatDeliver(p)
  \/ MatCheck \/ MatStmt \/ MatRecordDedupe \/ MatRecordOffset
  \/ MatThrow

SpecPoison == InitPoison /\ [][NextPoison]_vars

\* the events a producer of the ledger may append for a link: a capture
\* client, the fetcher reading events.raw (its content.fetched carries the
\* fetch_error of the result), the enricher, the publisher
EventInputs(s, now) ==
  {NewEvent("link.added", "chrome", s,
            [EmptyEventPayload EXCEPT !.url = UrlOf(s)], 0, now)}
  \cup {emitContentFetched(s, r, 1, now) :
          r \in {[textContent |-> "text", error |-> Null],
                 [textContent |-> Null, error |-> ExtractionError]}}
  \cup {emitEnrichmentCompleted(s, r, 1, now) : r \in Ok(EnrichResults)}
  \cup {emitPublishCompleted(s, 1, now)}

\* INSERT INTO lifestream.events by any producer
AppendEvent(e) ==
  /\ Len(events) < MaxEvents
  /\ clock' = clock + 1
  /\ events' = Append(events, e)
  /\ UNCHANGED <<forwarded, busVars, db, fwdVars, routerPos, workerPos,
                 matVars, applied, captures, faults, snapshot, requests,
                 fetchVars>>

\* SpecEvents: any sequence of link events is appended, forwarded and
\* materialized
InitEvents == InitWith(0, 0)

NextEvents ==
  \/ \E e \in EventInputs("link:a", clock + 1) : AppendEvent(e)
  \/ FwdCycle
  \/ MatBoot
  \/ \E p \in Partitions : MatHandle(p)

SpecEvents == InitEvents /\ [][NextEvents]_vars

\* SpecHappy: one captured link, every unit of work succeeds; each component
\* keeps taking the steps it can take
InitHappy == InitWith(1, 0)

HappyWork == Pipeline(Ok(FetchResults), Ok(EnrichResults), Ok(PublishResults))

HappyForwarder == FwdRead \/ FwdSend \/ FwdMark \/ FwdWake

HappyMaterializer ==
  \/ MatBoot
  \/ \E p \in Partitions : MatDeliver(p)
  \/ MatCheck \/ MatStmt \/ MatRecordDedupe \/ MatRecordOffset

NextHappy ==
  \/ Capture("link:a")
  \/ HappyForwarder
  \/ HappyWork
  \/ HappyMaterializer

SpecHappy ==
  /\ InitHappy /\ [][NextHappy]_vars
  /\ WF_vars(Capture("link:a"))
  /\ WF_vars(HappyForwarder)
  /\ WF_vars(HappyWork)
  /\ WF_vars(HappyMaterializer)

\* SpecReplay: one captured link, every unit of work succeeds, a forwarder
\* cycle may publish its batch without marking it; each component keeps
\* taking the steps it can take
InitReplay == InitWith(1, MaxFwdFaults)

NextReplay ==
  \/ Capture("link:a")
  \/ FwdCycle
  \/ FwdCycleMarkFails
  \/ HappyWork
  \/ MatBoot
  \/ \E p \in Partitions : MatHandle(p)

SpecReplay ==
  /\ InitReplay /\ [][NextReplay]_vars
  /\ WF_vars(Capture("link:a"))
  /\ WF_vars(FwdCycle)
  /\ WF_vars(HappyWork)
  /\ WF_vars(MatBoot \/ \E p \in Partitions : MatHandle(p))

\* the records of events.raw as (partition, offset) pairs
Offsets == {k \in Partitions \X (0 .. Len(events) + MaxFwdFaults * BatchLimit) :
              k[2] < LatestOffset(k[1])}

\* C1: for every (topic, partition, offset) of the events topic the
\* materializer applies the message's projection at most once, over retries
\* inside the handler, crashes and restarts, and redelivery of the offset.
C1_AtMostOnce == \A k \in DOMAIN applied : applied[k] <= 1

ProgressRecorded(k) ==
  HasRow(db.kafka_offsets, k[1]) /\ db.kafka_offsets[k[1]] >= k[2]

\* C2: per message the projection writes, the idempotency-ledger row and the
\* consumer-progress row are persisted all together or not at all; stated
\* for the durable state while no handler is in flight (between messages,
\* or after the process was killed).
C2_AllOrNothing ==
  matPc \in {"idle", "down"} =>
    \A k \in Offsets :
      \/ /\ HasRow(applied, k)
         /\ k \in db.event_ingest_dedupe
         /\ ProgressRecorded(k)
      \/ /\ ~HasRow(applied, k)
         /\ k \notin db.event_ingest_dedupe
         /\ ~ProgressRecorded(k)

(* ---------------- exactly-once reference ---------------- *)
RECURSIVE ProjectOnce(_, _, _)
\* the projections when each distinct ledger event carried by the records
\* msgs is processed exactly once, in the order of its first record
ProjectOnce(msgs, seen, d) ==
  IF msgs = <<>> THEN d
  ELSE LET event == JSONParse(Head(msgs).value) IN
       IF event.id \in seen THEN ProjectOnce(Tail(msgs), seen, d)
       ELSE ProjectOnce(Tail(msgs), seen \cup {event.id},
                        RunStmts(processEvent(event), event, d))

\* subjects of different partitions share no projection row, so the
\* partitions are folded one after the other
ProjectedOnce(d) ==
  ProjectOnce(topicEvents[2], {},
    ProjectOnce(topicEvents[1], {}, ProjectOnce(topicEvents[0], {}, d)))

\* some ledger event has more than one record on events.raw
PublishedTwice ==
  \E p \in Partitions : \E i, j \in 1 .. Len(topicEvents[p]) :
    i < j /\ JSONParse(topicEvents[p][i].value).id
               = JSONParse(topicEvents[p][j].value).id

\* C3: when the forwarder has published a ledger event more than once and
\* the materializer has processed every copy, the projections equal the
\* projections obtained by processing every event exactly once.
C3_DuplicatesAbsorbed ==
  (Quiescent /\ PublishedTwice) =>
    Projections(db) = Projections(ProjectedOnce(EmptyDb))

\* C4: replay equivalence. Reset-bus run when every event had been
\* forwarded, routed and projected, then the components restarted and every
\* event reprojected: the projections equal those before the reset.
C4_ReplayEquivalence ==
  (/\ snapshot # <<>>
   /\ snapshot[1].quiescent
   /\ snapshot[1].events = Len(events)
   /\ Quiescent) =>
    Projections(db) = snapshot[1].projections

(* ---------------- retries and dead letters ---------------- *)
\* the event the router reads next from partition p
RouterNext(p) == JSONParse(topicEvents[p][routerPos[p] + 1].value)

\* the router has just handled a work.failed event carrying a work command
HandlesWorkFailed(p) ==
  /\ routerPos[p] < Len(topicEvents[p])
  /\ routerPos'[p] = routerPos[p] + 1
  /\ RouterNext(p).event_type = "work.failed"
  /\ RouterNext(p).payload.work_message # NoWork

C5_Step ==
  \A p \in Partitions :
    HandlesWorkFailed(p) =>
      LET e == RouterNext(p)
          w == e.payload.work_message
      IN IF w.attempt < w.max_attempts
           THEN /\ topicDLQ' = topicDLQ
                /\ \E r \in {topicWork'[w.work_type][Len(topicWork'[w.work_type])]} :
                     /\ topicWork' = [topicWork EXCEPT ![w.work_type] = Append(@, r)]
                     /\ r.attempt = w.attempt + 1
                     /\ r.last_error = e.payload.error
                     /\ r.created_at = clock' /\ r.created_at > w.created_at
                     /\ r.subject_id = w.subject_id
                     /\ r.work_type = w.work_type
                     /\ r.correlation_id = w.correlation_id
                     /\ r.triggered_by_event_id = w.triggered_by_event_id
                     /\ r.max_attempts = w.max_attempts
                     /\ r.payload = w.payload
           ELSE /\ topicWork' = topicWork
                /\ topicDLQ' = Append(topicDLQ,
                                      [original_work |-> w,
                                       final_error |-> e.payload.error,
                                       failed_at |-> clock',
                                       agent |-> e.payload.agent])

CommandsOf(t, g) ==
  LET Test(w) == w.triggered_by_event_id = g
  IN SelectSeq(topicWork[t], Test)

DeadLettersOf(t, g) ==
  LET Test(d) == /\ d.original_work.work_type = t
                 /\ d.original_work.triggered_by_event_id = g
  IN SelectSeq(topicDLQ, Test)

\* the work.failed events of the ledger for a work command's trigger
FailuresOf(subjectId, g) ==
  {i \in EventIds :
     /\ events[i].event_type = "work.failed"
     /\ events[i].payload.work_message.subject_id = subjectId
     /\ events[i].payload.work_message.triggered_by_event_id = g}

C7_DeadLetterHasFailures ==
  \A k \in 1 .. Len(topicDLQ) :
    LET w == topicDLQ[k].original_work
    IN Cardinality(FailuresOf(w.subject_id, w.triggered_by_event_id))
         >= w.max_attempts

C7_Witness ==
  \E k \in 1 .. Len(topicDLQ) :
    Cardinality(FailuresOf(topicDLQ[k].original_work.subject_id,
                           topicDLQ[k].original_work.triggered_by_event_id)) = 3

\* the fetcher failed with a transport error on each of the three attempts
FetcherFailedThreeTimes(s) ==
  \E g \in EventIds :
    /\ Len(DeadLettersOf("fetch_link", g)) = 1
    /\ Cardinality({i \in FailuresOf(s, g) :
                      events[i].payload.agent = "fetcher"}) = 3

\* C8: after the fetcher has failed three times with a transport error for a
\* link and every resulting event has been forwarded and materialized, the
\* link row has status = error, retry_count = 3 and last_error set.
C8_LinkMarkedError ==
  \A s \in Subjects :
    (Quiescent /\ FetcherFailedThreeTimes(s) /\ HasRow(db.links, s)) =>
      /\ db.links[s].status = "error"
      /\ db.links[s].retry_count = 3
      /\ db.links[s].last_error # Null

(* ---------------- outbox ---------------- *)
\* events.raw holds a record whose body decodes to ledger event i
OnBus(i) ==
  /\ i \in EventIds
  /\ \E p \in Partitions : \E k \in 1 .. Len(topicEvents[p]) :
       JSONParse(topicEvents[p][k].value) = events[i]

\* C9: every event whose forwarded flag is true has at least one record on
\* the events topic, through failed sends, failed marks and crashes at any
\* point of a cycle.
C9_ForwardedOnBus == \A i \in forwarded : OnBus(i)

\* events are marked forwarded after a cycle that failed or was killed
C9_Witness ==
  /\ forwarded # {}
  /\ faults < MaxFwdFaults
  /\ \E i \in EventIds : i \notin forwarded

\* a cycle that sent a batch has terminated successfully
CycleSucceeded == fwdPc = "sleep" /\ fwdBatch # <<>>

RecordsOf(s, p) ==
  LET Test(m) == m.key = s
  IN SelectSeq(topicEvents[p], Test)

\* ORDER BY received_at, ties by event id
Precedes(a, b) ==
  \/ a.received_at < b.received_at
  \/ a.received_at = b.received_at /\ a.id <= b.id

\* C11: for every subject the records of the subject on the events topic lie
\* in one partition and, read in offset order, are non-decreasing in
\* received_at (ties by event id), over successful and failed cycles.
C11_PerSubjectOrder ==
  \A s \in Subjects :
    /\ \A p, q \in Partitions :
         (RecordsOf(s, p) # <<>> /\ RecordsOf(s, q) # <<>>) => p = q
    /\ \A p \in Partitions :
         LET r == RecordsOf(s, p)
         IN \A i, j \in 1 .. Len(r) :
              i < j => Precedes(JSONParse(r[i].value), JSONParse(r[j].value))

(* ---------------- boot ---------------- *)
\* C12: after a boot every partition p of the events topic is consumed from
\* earliest if recorded + 1 < earliest, from earliest with the topic's
\* idempotency-ledger rows deleted if recorded + 1 > latest, and from
\* recorded + 1 otherwise, recorded being the highest offset in the
\* idempotency ledger for p.
C12_StartOffset ==
  matPc # "down" =>
    /\ boot.truncated
    /\ \A p \in Partitions :
         boot.started[p] # -1 => boot.started[p] = boot.expected[p]

(* ---------------- bounded retries ---------------- *)
\* handleMessage returns in this step
Returns == matPc \in {"check", "stmt", "rec1", "rec2"} /\ matPc' = "idle"

\* the recordProcessed call of the last catch block throws in this step
LastRecordFails ==
  matPc \in {"rec1", "rec2"} /\ matAttempt > MAX_RETRIES /\ faults' < faults

AttemptsBounded == matPc \in {"check", "stmt"} => matAttempt <= MAX_RETRIES

StatusStep(s, a, b) ==
  /\ HasRow(db.links, s) /\ HasRow(db'.links, s)
  /\ db.links[s].status = a
  /\ db'.links[s].status = b

\* C14: the projected status of a link never changes directly from new to
\* enriched nor directly from fetched to published, whatever events are
\* materialized for the link.
C14_NoSkippedStatus ==
  [][\A s \in Subjects : /\ ~StatusStep(s, "new", "enriched")
                         /\ ~StatusStep(s, "fetched", "published")]_vars

\* C15: once the projected status of a link is published, no event
\* materialized afterwards changes it to error.
C15_PublishedIsTerminal ==
  [][\A s \in Subjects : ~StatusStep(s, "published", "error")]_vars

(* ---------------- steady state ---------------- *)
Steady(s) ==
  /\ HasRow(db.links, s) /\ db.links[s].status = "published"
  /\ HasRow(db.link_metadata, s) /\ db.link_metadata[s].tags = <<"x", "y">>
  /\ HasRow(db.publish_state, s)
  /\ db.publish_state[s].dirty = FALSE
  /\ db.publish_state[s].published_version = 1
  /\ db.publish_state[s].desired_version = 1

Dirty(s) == HasRow(db.publish_state, s) /\ db.publish_state[s].dirty

\* C17: whenever an enrichment.completed event of a subject has been
\* materialized (dirty = true), publish_state.dirty eventually returns to
\* false, for every interleaving of the router's alreadyPublished check with
\* the materializer's writes, a second enrichment.completed for the subject
\* included.
C17_DirtyClears == \A s \in Subjects : Dirty(s) ~> ~Dirty(s)

(* ---------------- replayed events ---------------- *)
\* ids of the enrichment.completed events of subject s among the records the
\* materializer has processed
EnrichmentsProcessed(s) ==
  {JSONParse(topicEvents[p][k].value).id :
     <<p, k>> \in {x \in Partitions \X (1 .. Len(events) * (MaxFwdFaults + 1)) :
                     /\ x[2] <= matPos[x[1]]
                     /\ x[2] <= Len(topicEvents[x[1]])
                     /\ topicEvents[x[1]][x[2]].key = s
                     /\ JSONParse(topicEvents[x[1]][x[2]].value).event_type
                          = "enrichment.completed"}}

\* C18: after materialization desired_version equals the number of distinct
\* enrichment.completed event ids processed for the subject; a replayed copy
\* of a processed event id does not increase it.
C18_DesiredVersionCountsIds ==
  \A s \in Subjects :
    (matPc = "idle" /\ HasRow(db.publish_state, s)) =>
      db.publish_state[s].desired_version
        = Cardinality(EnrichmentsProcessed(s))

\* the attempt-1 commands of work type t triggered by ledger event g
FirstAttempts(t, g) ==
  {k \in 1 .. Len(topicWork[t]) :
     /\ topicWork[t][k].triggered_by_event_id = g
     /\ topicWork[t][k].attempt = 1}

\* C19: for every ledger event the router emits at most one attempt-1 work
\* command of each stage, also when the event is delivered to the router
\* more than once or handled before the materializer projected earlier
\* results.
C19_StageTriggeredOnce ==
  \A t \in WorkTypes : \A g \in EventIds :
    Cardinality(FirstAttempts(t, g)) <= 1

\* C20: for a valid response without extractable body text the fetcher
\* appends content.fetched with a non-null fetch_error and a null
\* text_content, and no work.failed; it appends work.failed only for
\* timeouts and transport errors.
C20_PartialSuccessNotFailed ==
  \A i \in EventIds :
    (events[i].event_type = "work.failed" /\ events[i].payload.agent = "fetcher")
      => events[i].payload.error # ExtractionError

(* ---------------- SpecWork: router and workers on two captures --------- *)
\* one link captured twice runs through the router and the workers; a fetch
\* may time out; the materializer is not running
InitWork == InitWith(2, 0)

NextWork ==
  \/ Capture("link:a")
  \/ FwdCycle
  \/ Pipeline({r \in FetchResults : r.error # ExtractionError},
              Ok(EnrichResults), Ok(PublishResults))

SpecWork == InitWork /\ [][NextWork]_vars

AgentSources == {AgentSource(a) : a \in {"fetcher", "enricher", "publisher"}}

\* the work topic an agent consumes
TopicOf(source) ==
  CASE source = "agent:fetcher" -> "fetch_link"
    [] source = "agent:enricher" -> "enrich_link"
    [] OTHER -> "publish_link"

WorkerEvent(i) == events[i].source \in AgentSources

\* the work command a worker was processing when it appended event i: a worker
\* consumes its topic in order and appends one event per command
CommandOf(i) ==
  topicWork[TopicOf(events[i].source)]
           [Cardinality({j \in 1 .. i : events[j].source = events[i].source})]

\* the event a worker event descends from, through the commands' triggers
RECURSIVE Origin(_)
Origin(i) ==
  IF WorkerEvent(i) THEN Origin(CommandOf(i).triggered_by_event_id) ELSE i

\* C21: every event a worker appended has a non-null correlation_id equal to
\* that of the work command it processed, and every work command and worker
\* event carries the id of the originating event it descends from, retries
\* included
C21_CorrelationPreserved ==
  /\ \A i \in EventIds :
       WorkerEvent(i) =>
         /\ events[i].correlation_id # 0
         /\ events[i].correlation_id = CommandOf(i).correlation_id
         /\ events[i].correlation_id = Origin(i)
  /\ \A t \in WorkTypes : \A k \in 1 .. Len(topicWork[t]) :
       topicWork[t][k].correlation_id
         = Origin(topicWork[t][k].triggered_by_event_id)

\* two originating events, a retried command of the second and a completion
\* event two stages below the first
C21_Witness ==
  /\ \E i, j \in EventIds :
       /\ events[i].event_type = "enrichment.completed"
       /\ events[j].event_type = "work.failed"
       /\ Origin(i) # Origin(j)
  /\ \E k \in 1 .. Len(topicWork["fetch_link"]) :
       /\ topicWork["fetch_link"][k].attempt > 1
       /\ topicWork["fetch_link"][k].correlation_id > 1

(* ---------------- SpecWorkers: every outcome of a unit of work ----------- *)
\* one captured link; the enricher's model may fail or answer without a tags
\* array, fetches and publications succeed
InitWorkers == InitWith(1, 0)

NextWorkers ==
  \/ Capture("link:a")
  \/ FwdCycle
  \/ Pipeline(Ok(FetchResults), EnrichResults \cup {UntaggedEnrichment},
              Ok(PublishResults))

SpecWorkers == InitWorkers /\ [][NextWorkers]_vars

CompletionOf ==
  [fetch_link |-> "content.fetched", enrich_link |-> "enrichment.completed",
   publish_link |-> "publish.completed"]

\* the worker of work type t handles its next command in this step
Processes(t) == workerPos'[t] = workerPos[t] + 1

ValidPayload(w) ==
  CASE w.work_type = "fetch_link" -> w.payload.url # NoUrl
    [] w.work_type = "enrich_link" -> Truthy(w.payload.text_content)
    [] OTHER -> TRUE

\* C22: a worker that processes a command with a valid payload appends exactly
\* one event, the stage's completion event or work.failed with the whole
\* command and the error
C22_ExactlyOneEvent ==
  [][\A t \in WorkTypes :
       LET w == topicWork[t][workerPos[t] + 1] IN
       Processes(t) /\ ValidPayload(w) =>
         /\ Len(events') = Len(events) + 1
         /\ LET e == events'[Len(events')] IN
            \/ e.event_type = CompletionOf[t]
            \/ /\ e.event_type = "work.failed"
               /\ e.payload.work_message = w
               /\ e.payload.error # Null]_vars

(* ---------------- admin tools ---------------- *)
Visibilities == {"public", "private"}

emitVisibilityChangedEvent(subjectId, visibility, now) ==
  NewEvent("link.visibility_changed", "admin:set-visibility", subjectId,
           [EmptyEventPayload EXCEPT !.visibility = visibility], 0, now)

\* admin:set-visibility --subject-id s --visibility v: one event if the link
\* exists and its visibility differs
SetVisibility(s, v) ==
  /\ Len(events) < MaxEvents
  /\ HasRow(db.links, s)
  /\ db.links[s].visibility # v
  /\ clock' = clock + 1
  /\ events' = Append(events, emitVisibilityChangedEvent(s, v, clock'))
  /\ UNCHANGED <<forwarded, busVars, db, fwdVars, routerPos, workerPos,
                 matVars, applied, captures, faults, snapshot, requests,
                 fetchVars>>

Delete(table, key) == [k \in (DOMAIN table) \ {key} |-> table[k]]

\* cleanLinkState: two DELETEs and an UPDATE of the projections
cleanLinkState(d, subjectId) ==
  [d EXCEPT !.link_content = Delete(@, subjectId),
            !.link_metadata = Delete(@, subjectId),
            !.links = [@ EXCEPT ![subjectId].status = "new"]]

emitLinkAddedEvent(subjectId, now) ==
  NewEvent("link.added", "retry-script", subjectId,
           [EmptyEventPayload EXCEPT !.url = UrlOf(subjectId)], 0, now)

\* findFailedLinks without --subject-id
FailedLink(d, s) ==
  /\ HasRow(d.links, s)
  /\ d.links[s].status = "error"
  /\ d.links[s].retry_count < DEFAULT_MAX_RETRIES

\* retry:failed on one failed link: retryLink
RetryFailed(s) ==
  /\ Len(events) < MaxEvents
  /\ FailedLink(db, s)
  /\ db' = cleanLinkState(db, s)
  /\ clock' = clock + 1
  /\ events' = Append(events, emitLinkAddedEvent(s, clock'))
  /\ UNCHANGED <<forwarded, busVars, fwdVars, routerPos, workerPos, matVars,
                 applied, captures, faults, snapshot, requests, fetchVars>>

\* findStuckLinks: enriched and no publish.completed event in the ledger
StuckLink(d, s) ==
  /\ HasRow(d.links, s)
  /\ d.links[s].status = "enriched"
  /\ ~\E i \in EventIds : /\ events[i].subject_id = s
                          /\ events[i].event_type = "publish.completed"

\* emitEnrichmentCompleted of recover:stuck, tags from link_metadata
recoverEmitEnrichmentCompleted(d, s, now) ==
  NewEvent("enrichment.completed", "admin:recovery", s,
           [EmptyEventPayload EXCEPT
              !.tags = IF HasRow(d.link_metadata, s)
                         THEN d.link_metadata[s].tags ELSE <<>>],
           0, now)

\* recover:stuck --subject-id s
RecoverStuck(s) ==
  /\ Len(events) < MaxEvents
  /\ StuckLink(db, s)
  /\ clock' = clock + 1
  /\ events' = Append(events, recoverEmitEnrichmentCompleted(db, s, clock'))
  /\ UNCHANGED <<forwarded, busVars, db, fwdVars, routerPos, workerPos,
                 matVars, applied, captures, faults, snapshot, requests,
                 fetchVars>>

\* SpecAdmin: any sequence of link events, the forwarder, the materializer and
\* an operator running the admin tools
InitAdmin == InitWith(0, 0)

NextAdmin ==
  \/ \E e \in EventInputs("link:a", clock + 1) : AppendEvent(e)
  \/ \E v \in Visibilities : SetVisibility("link:a", v)
  \/ RetryFailed("link:a")
  \/ RecoverStuck("link:a")
  \/ FwdCycle
  \/ MatBoot
  \/ \E p \in Partitions : MatHandle(p)

SpecAdmin == InitAdmin /\ [][NextAdmin]_vars

\* the materializer handles the record at its position of partition p
Materializes(p) ==
  /\ matPc = "idle" /\ matPc' = "idle"
  /\ matPos'[p] = matPos[p] + 1
  /\ ~SeekSkips(p)

\* C23: once the materializer has processed a link.visibility_changed event,
\* the link row and the subject row of the link have the event's visibility
C23_VisibilityApplied ==
  [][\A p \in Partitions :
       Materializes(p) =>
         LET event == JSONParse(MessageAt(p, matPos[p]).value) IN
         event.event_type = "link.visibility_changed" =>
           /\ db'.links[event.subject_id].visibility
                = event.payload.visibility
           /\ db'.subjects[event.subject_id].visibility
                = event.payload.visibility]_vars

AdminSources == {"admin:set-visibility", "admin:recovery", "retry-script"}

\* an admin tool appends an event in this step
AdminToolRuns ==
  /\ Len(events') = Len(events) + 1
  /\ events'[Len(events')].source \in AdminSources

\* C24: a run of an admin tool (set-visibility, recover-stuck, retry-failed)
\* appends events and changes no row of a projection table
C24_AdminOnlyAppends ==
  [][AdminToolRuns => Projections(db') = Projections(db)]_vars

(* ---------------- share-link endpoint, step by step ---------------- *)
\* the request of client c arrives: validation, then the identifiers
SharePost(c, url) ==
  /\ captures > 0
  /\ requests[c].pc \in {"idle", "200", "400", "500"}
  /\ captures' = captures - 1
  /\ requests' = [requests EXCEPT ![c] =
        IF url = NoUrl \/ ~IsUrl(url)
          THEN [NoRequest EXCEPT !.pc = "400", !.url = url]
          ELSE [pc |-> "subjects", url |-> url,
                url_norm |-> normalizeUrl(url),
                subject_id |-> linkSubjectId(url)]]
  /\ UNCHANGED <<events, forwarded, clock, busVars, db, fwdVars, routerPos,
                 workerPos, matVars, applied, faults, snapshot, fetchVars>>

\* 1. upsert into subjects
ShareUpsertSubject(c) ==
  /\ requests[c].pc = "subjects"
  /\ db' = [db EXCEPT !.subjects =
              Upsert(@, requests[c].subject_id, [visibility |-> "public"])]
  /\ requests' = [requests EXCEPT ![c].pc = "links"]
  /\ UNCHANGED <<events, forwarded, clock, busVars, fwdVars, routerPos,
                 workerPos, matVars, applied, captures, faults, snapshot,
                 fetchVars>>

ShareLinkRow(d, r) ==
  IF HasRow(d.links, r.subject_id)
    THEN [d.links[r.subject_id] EXCEPT
            !.status = "new", !.visibility = "public", !.pinned = FALSE,
            !.url = r.url, !.url_norm = r.url_norm]
    ELSE [status |-> "new", visibility |-> "public", pinned |-> FALSE,
          retry_count |-> 0, last_error |-> Null, url |-> r.url,
          url_norm |-> r.url_norm]

\* links_url_norm_uq: another row has the url_norm
UrlNormTaken(d, r) ==
  \E k \in DOMAIN d.links :
    k # r.subject_id /\ d.links[k].url_norm = r.url_norm

\* 2. upsert into links
ShareUpsertLink(c) ==
  /\ requests[c].pc = "links"
  /\ IF UrlNormTaken(db, requests[c])
       THEN /\ requests' = [requests EXCEPT ![c].pc = "500"]
            /\ UNCHANGED db
       ELSE /\ requests' = [requests EXCEPT ![c].pc = "events"]
            /\ db' = [db EXCEPT !.links =
                   Upsert(@, requests[c].subject_id,
                          ShareLinkRow(db, requests[c]))]
  /\ UNCHANGED <<events, forwarded, clock, busVars, fwdVars, routerPos,
                 workerPos, matVars, applied, captures, faults, snapshot,
                 fetchVars>>

\* 3. insert the link.added event
ShareInsertEvent(c) ==
  /\ requests[c].pc = "events"
  /\ clock' = clock + 1
  /\ events' = Append(events,
        NewEvent("link.added", "chrome", requests[c].subject_id,
                 [EmptyEventPayload EXCEPT
                    !.url = requests[c].url,
                    !.url_norm = requests[c].url_norm],
                 0, clock'))
  /\ requests' = [requests EXCEPT ![c].pc = "200"]
  /\ UNCHANGED <<forwarded, busVars, db, fwdVars, routerPos, workerPos,
                 matVars, applied, captures, faults, snapshot, fetchVars>>

ShareStep(c) ==
  ShareUpsertSubject(c) \/ ShareUpsertLink(c) \/ ShareInsertEvent(c)

(* ---------------- SpecUrl: any URL is posted ---------------- *)
RECURSIVE SeqsUpTo(_, _)
SeqsUpTo(S, n) ==
  IF n = 0 THEN {<<>>}
  ELSE SeqsUpTo(S, n - 1)
         \cup {Append(q, t) : q \in SeqsUpTo(S, n - 1), t \in S}

\* absent, or a slash and up to MaxPathLen - 1 more tokens
PathInputs ==
  {<<>>} \cup {<<"/">> \o q : q \in SeqsUpTo(PathTokens, MaxPathLen - 1)}

QueryInputs ==
  {<<>>} \cup {<<"?", a>> : a \in ParamTokens}
         \cup {<<"?", a, "&", b>> : a, b \in ParamTokens}

WellFormedInputs ==
  {<<scheme, "//", host>> \o port \o path \o query \o hash :
     scheme \in Schemes, host \in Hosts,
     port \in {<<>>} \cup {<<t>> : t \in Ports},
     path \in PathInputs, query \in QueryInputs,
     hash \in {<<>>, <<"#", "f">>}}

\* strings new URL() rejects: no scheme, no authority
MalformedInputs == {<<"example.com", "/", "a">>, <<"https:", "a">>}

UrlInputs == WellFormedInputs \cup MalformedInputs

InitUrl == InitWith(1, 0)

NextUrl ==
  \/ \E url \in UrlInputs : SharePost("c1", url)
  \/ ShareStep("c1")

SpecUrl == InitUrl /\ [][NextUrl]_vars

\* C25: for every posted URL u, well-formed or not, the subject id of u is
\* the subject id of normalize(u), and normalizing twice changes nothing
C25_NormalizeIdempotent ==
  \A c \in Clients :
    requests[c].pc # "idle" =>
      LET u == requests[c].url IN
      /\ linkSubjectId(u) = linkSubjectId(normalizeUrl(u))
      /\ normalizeUrl(normalizeUrl(u)) = normalizeUrl(u)

\* HTTPS://Example.com/a/?b=2&a=1#f
ExampleUrl ==
  <<"HTTPS:", "//", "Example.com", "/", "a", "/", "?", "b=2", "&", "a=1",
    "#", "f">>

\* https://example.com/a?a=1&b=2
ExampleNorm ==
  <<"https:", "//", "example.com", "/", "a", "?", "a=1", "&", "b=2">>

\* C26: the url_norm of an accepted URL has a lowercase scheme and host, no
\* default port, no fragment, its query parameters sorted and no trailing
\* slash on a non-root path; HTTPS://Example.com/a/?b=2&a=1#f becomes
\* https://example.com/a?a=1&b=2 and the subject id is link: and the digest
\* of that string
C26_NormalForm ==
  \A c \in Clients :
    requests[c].pc \notin {"idle", "400"} =>
      LET n == requests[c].url_norm IN
      /\ n[1] = ToLowerCase(n[1]) /\ n[3] = ToLowerCase(n[3])
      /\ ~(n[1] = "http:" /\ PortOf(n) = <<":80">>)
      /\ ~(n[1] = "https:" /\ PortOf(n) = <<":443">>)
      /\ \A k \in 1 .. Len(n) : n[k] # "#"
      /\ Search(n) = Join(SortedEntries(Search(n)))
      /\ RawPath(n) # <<"/">> => RawPath(n)[Len(RawPath(n))] # "/"
      /\ requests[c].url = ExampleUrl =>
           /\ n = ExampleNorm
           /\ requests[c].subject_id = "link:" \o sha256Short(ExampleNorm)

(* ---------------- SpecShare: two clients share one URL ---------------- *)
\* two spellings of one URL
ShareUrls ==
  { <<"HTTPS:", "//", "Example.com", ":443", "/", "a", "#", "f">>,
    <<"https:", "//", "example.com", "/", "a">> }

\* the requests run concurrently, statement by statement; the forwarder may
\* send a batch again, so the materializer sees replayed link.added records
InitShare == InitWith(2, MaxFwdFaults)

NextShare ==
  \/ \E c \in Clients : \E url \in ShareUrls : SharePost(c, url)
  \/ \E c \in Clients : ShareStep(c)
  \/ FwdCycle
  \/ FwdCycleMarkFails
  \/ MatBoot
  \/ \E p \in Partitions : MatHandle(p)

SpecShare == InitShare /\ [][NextShare]_vars

\* the link rows of the shared URL
LinkRowsOf(urls) == {k \in DOMAIN db.links : db.links[k].url \in urls}

LinkUpserted(c) == requests[c].pc \in {"events", "200"}

\* C27: however two capture requests for one URL interleave, and whatever
\* link.added records the materializer processes or processes again, there is
\* never a second link row for the URL, and there is one once a request has
\* written it
C27_OneLinkRow ==
  /\ Cardinality(LinkRowsOf(ShareUrls)) <= 1
  /\ (\E c \in Clients : LinkUpserted(c)) =>
       Cardinality(LinkRowsOf(ShareUrls)) = 1

\* both requests are answered, they spelled the URL differently, and the
\* materializer has processed a record of the bus a second time
C27_Witness ==
  /\ \A c \in Clients : requests[c].pc = "200"
  /\ requests["c1"].url # requests["c2"].url
  /\ \E p \in Partitions :
       /\ Len(topicEvents[p]) > Len(events)
       /\ matPos[p] = Len(topicEvents[p])
  /\ Cardinality(LinkRowsOf(ShareUrls)) = 1

(* ---------------- fetcher, request by request ---------------- *)
getDomain(url) == IF IsUrl(url) THEN ToLowerCase(url[3]) ELSE "unknown"

\* hosts a response may redirect to
RedirectHosts == {"example.com", "cdn.example.net"}

\* time passes on the fetcher's host
Tick ==
  /\ dateNow < RATE_LIMIT_MS + MaxTicks * (RATE_LIMIT_MS \div 2)
  /\ dateNow' = dateNow + RATE_LIMIT_MS \div 2
  /\ UNCHANGED <<events, forwarded, clock, busVars, db, fwdVars, routerPos,
                 workerPos, matVars, applied, captures, faults, snapshot,
                 requests, lastFetchByDomain, fetchCur, outbound>>

\* rateLimitForDomain: when it returns, and what it has recorded
rateLimitForDomain(domain) ==
  IF /\ HasRow(lastFetchByDomain, domain)
     /\ dateNow - lastFetchByDomain[domain] < RATE_LIMIT_MS
    THEN lastFetchByDomain[domain] + RATE_LIMIT_MS
    ELSE dateNow

\* handleMessage up to the request of fetch(url)
FetchStart ==
  /\ fetchCur = Null
  /\ Len(outbound) < MaxRequests
  /\ workerPos["fetch_link"] < Len(topicWork["fetch_link"])
  /\ LET workMessage == topicWork["fetch_link"][workerPos["fetch_link"] + 1]
         domain == getDomain(workMessage.payload.url)
     IN /\ workMessage.payload.url # NoUrl
        /\ dateNow' = rateLimitForDomain(domain)
        /\ lastFetchByDomain' = Upsert(lastFetchByDomain, domain, dateNow')
        /\ fetchCur' = domain
        /\ outbound' = Append(outbound, [host |-> domain, at |-> dateNow'])
  /\ UNCHANGED <<events, forwarded, clock, busVars, db, fwdVars, routerPos,
                 workerPos, matVars, applied, captures, faults, snapshot,
                 requests>>

\* redirect: 'follow': the response is a redirect and fetch requests its target
FetchRedirect(host) ==
  /\ fetchCur # Null
  /\ Len(outbound) < MaxRequests
  /\ fetchCur' = host
  /\ outbound' = Append(outbound, [host |-> host, at |-> dateNow])
  /\ UNCHANGED <<events, forwarded, clock, busVars, db, fwdVars, routerPos,
                 workerPos, matVars, applied, captures, faults, snapshot,
                 requests, dateNow, lastFetchByDomain>>

\* the final response: the rest of handleMessage
FetchFinish(result) ==
  /\ fetchCur # Null
  /\ LET appended ==
           fetcherHandleMessage(
             topicWork["fetch_link"][workerPos["fetch_link"] + 1], result,
             clock + 1)
     IN /\ events' = events \o appended
        /\ clock' = clock + Len(appended)
  /\ workerPos' = [workerPos EXCEPT !["fetch_link"] = @ + 1]
  /\ fetchCur' = Null
  /\ UNCHANGED <<forwarded, busVars, db, fwdVars, routerPos, matVars,
                 applied, captures, faults, snapshot, requests, dateNow,
                 lastFetchByDomain, outbound>>

(* ---------------- SpecFetch: the fetcher and its clock ---------------- *)
\* two links of one host are captured; a fetch may time out and is then
\* commanded again; a response may redirect
InitFetch == InitWith(2, 0)

NextFetch ==
  \/ \E s \in Subjects : Capture(s)
  \/ FwdCycle
  \/ \E p \in Partitions : RouterHandle(p)
  \/ Tick
  \/ FetchStart
  \/ \E host \in RedirectHosts : FetchRedirect(host)
  \/ \E r \in {r \in FetchResults : r.error # ExtractionError} : FetchFinish(r)

SpecFetch == InitFetch /\ [][NextFetch]_vars

\* C28: two requests the fetcher issues to one hostname are at least
\* RATE_LIMIT_MS apart, whatever fetch_link commands it processes
C28_OneRequestPerWindow ==
  \A i, j \in 1 .. Len(outbound) :
    i < j /\ outbound[i].host = outbound[j].host =>
      outbound[j].at - outbound[i].at >= RATE_LIMIT_MS

(* ---------------- forwarder: backoff and fatal exit ---------------- *)
\* the catch block threw: MAX_RETRIES consecutive cycles have failed
MaxRetriesExceeded ==
  fwdPc = "exited" /\ consecutiveErrors >= FWD_MAX_RETRIES

\* a retry is pending: the catch block awaits its timer before `continue`
RetryPending == fwdPc = "idle" /\ consecutiveErrors > 0

\* a cycle is under way
InCycle == fwdPc \in {"send", "mark"}

\* the delays awaited before a retry follow min(1 s x 2^(k-1), 30 s)
BackoffFollowsFormula ==
  RetryPending =>
    \E k \in 1 .. FWD_MAX_RETRIES :
      /\ k = consecutiveErrors
      /\ delay = 1000 * (IF 2 ^ (k - 1) < 30 THEN 2 ^ (k - 1) ELSE 30)

\* no cycle runs once 5 consecutive cycles have failed
NoCycleAfterMaxRetries ==
  /\ consecutiveErrors <= 5
  /\ consecutiveErrors = 5 => ~InCycle /\ ~RetryPending

\* C29: the forwarder retries a failed cycle after min(1 s x 2^(k-1), 30 s),
\* k the number of consecutive failed cycles, and after 5 consecutive
\* failures it runs no further cycle and terminates with a fatal error
C29_BackoffThenFatalExit ==
  /\ BackoffFollowsFormula
  /\ NoCycleAfterMaxRetries
  /\ consecutiveErrors = 5 => fwdPc = "exited" /\ exitCode > 0

(* ---------------- shutdown on SIGINT/SIGTERM ---------------- *)
\* the forwarder's shutdown handler: it runs beside main()'s loop, closes
\* the producer and the pool and calls process.exit(0) without waiting for
\* the cycle. A send in flight may or may not have reached the broker; an
\* UPDATE in flight may or may not have been executed before the pool ended
FwdShutdown ==
  /\ fwdPc \in {"idle", "send", "mark", "sleep"}
  /\ faults > 0
  /\ faults' = faults - 1
  /\ \/ /\ fwdPc = "send"
        /\ topicEvents' \in {topicEvents, ProducerSend(topicEvents, fwdBatch)}
        /\ UNCHANGED forwarded
     \/ /\ fwdPc = "mark"
        /\ forwarded' \in
             {forwarded,
              forwarded \cup {fwdBatch[k] : k \in 1 .. Len(fwdBatch)}}
        /\ UNCHANGED topicEvents
     \/ /\ fwdPc \in {"idle", "sleep"}
        /\ UNCHANGED <<topicEvents, forwarded>>
  /\ fwdPc' = "exited"
  /\ exitCode' = 0
  /\ UNCHANGED <<events, clock, topicWork, topicDLQ, db, fwdBatch,
                 consecutiveErrors, delay, routerPos, workerPos, matVars,
                 applied, captures, snapshot, requests, fetchVars>>

InitShutdown == InitWith(2, 2)

NextShutdown ==
  \/ \E s \in Subjects : Capture(s)
  \/ FwdRead \/ FwdSend \/ FwdMark \/ FwdWake
  \/ FwdShutdown \/ FwdRestart
  \/ MatBoot
  \/ \E p \in Partitions : MatHandle(p)
  \/ MatStop

SpecShutdown == InitShutdown /\ [][NextShutdown]_vars

\* this step is the forwarder's shutdown, up to process.exit(0)
FwdStopped == exitCode = NotExited /\ exitCode' = 0

\* this step is the materializer's shutdown
MatStopped == matPc # "down" /\ matPc' = "down"

\* the forwarder's unit of work: the batch is on the bus and marked
BatchForwarded ==
  \A k \in 1 .. Len(fwdBatch) :
    OnBus(fwdBatch[k]) /\ fwdBatch[k] \in forwarded

\* C30: on SIGINT/SIGTERM a component lets the unit of work in flight run
\* to completion before it closes its connections: a shutdown never leaves
\* a unit of work between its steps
C30_ShutdownCompletesUnit ==
  [][/\ (FwdStopped /\ InCycle) => BatchForwarded'
     /\ MatStopped => matPc = "idle"]_vars

(* ---------------- projections: frame conditions ---------------- *)
\* the event of the record the materializer is positioned at on partition p
EventAt(p) == JSONParse(MessageAt(p, matPos[p]).value)

\* the record at offset k of partition p carries an event of this type and
\* its projection has been completed
Applied(p, k, eventType) ==
  /\ k < LatestOffset(p)
  /\ JSONParse(MessageAt(p, k).value).event_type = eventType
  /\ HasRow(applied, <<p, k>>)

\* C31: materializing link.added for a subject that already has a link row
\* leaves the row's status as it is, whatever the status: link.added never
\* resets a link to new
C31_LinkAddedKeepsStatus ==
  [][\A p \in Partitions :
       (/\ Materializes(p)
        /\ EventAt(p).event_type = "link.added"
        /\ HasRow(db.links, EventAt(p).subject_id)) =>
         /\ HasRow(db'.links, EventAt(p).subject_id)
         /\ db'.links[EventAt(p).subject_id].status
              = db.links[EventAt(p).subject_id].status]_vars

\* a second link.added was materialized after the link had left status new
C31_Witness ==
  \E p \in Partitions : \E j, m, k \in 0 .. MaxEvents :
    /\ j < m /\ m < k
    /\ Applied(p, j, "link.added")
    /\ Applied(p, m, "content.fetched")
    /\ Applied(p, k, "link.added")
    /\ db.links["link:a"].status # "new"

(* ---------------- link metadata: tags ---------------- *)
\* tag sets an enrichment.completed event may carry (tags ?? [] included)
TagSets == {<<>>, <<"x", "y">>, <<"z">>}

TagInputs(s, now) ==
  {NewEvent("link.added", "chrome", s,
            [EmptyEventPayload EXCEPT !.url = UrlOf(s)], 0, now)}
  \cup {emitEnrichmentCompleted(s, [tags |-> t], 1, now) : t \in TagSets}

\* SpecTags: enrichment.completed events with any tag sets, in any order
InitTags == InitWith(0, 0)

NextTags ==
  \/ \E e \in TagInputs("link:a", clock + 1) : AppendEvent(e)
  \/ FwdCycle
  \/ MatBoot
  \/ \E p \in Partitions : MatHandle(p)

SpecTags == InitTags /\ [][NextTags]_vars

\* the tags of the metadata row of subject s
TagsOf(d, s) == d.link_metadata[s].tags

\* C32: a non-empty tag set in a link's metadata is never replaced by the
\* empty set of a later enrichment.completed event, and an incoming
\* non-empty tag set replaces the existing one, an empty one included
C32_TagsNeverEmptied ==
  [][\A s \in Subjects :
       /\ (HasRow(db.link_metadata, s) /\ TagsOf(db, s) # <<>>) =>
            HasRow(db'.link_metadata, s) /\ TagsOf(db', s) # <<>>
       /\ \A p \in Partitions :
            (/\ Materializes(p)
             /\ ~isAlreadyProcessed(db, p, matPos[p])
             /\ EventAt(p).event_type = "enrichment.completed"
             /\ EventAt(p).subject_id = s
             /\ HasRow(db.links, s)) =>
              /\ HasRow(db'.link_metadata, s)
              /\ EventAt(p).payload.tags # <<>> =>
                   TagsOf(db', s) = EventAt(p).payload.tags
              /\ (/\ EventAt(p).payload.tags = <<>>
                  /\ HasRow(db.link_metadata, s)) =>
                   TagsOf(db', s) = TagsOf(db, s)]_vars

\* an enrichment.completed with no tags was materialized after one with
\* tags, and the tags are still there
C32_Witness ==
  \E p \in Partitions : \E j, k \in 0 .. MaxEvents :
    /\ j < k
    /\ Applied(p, j, "enrichment.completed")
    /\ Applied(p, k, "enrichment.completed")
    /\ JSONParse(MessageAt(p, j).value).payload.tags # <<>>
    /\ JSONParse(MessageAt(p, k).value).payload.tags = <<>>
    /\ HasRow(db.link_metadata, "link:a")
    /\ TagsOf(db, "link:a") # <<>>

(* ---------------- temperature readings ---------------- *)
Sensors == {"sensor:living_room", "sensor:attic"}

\* occurred_at of a reading is the sensor's time, not the arrival time
ReadingTimes == {1, 2}

\* celsius of the payload; Null stands for a payload without celsius
Celsius == {"20.5", "21.0", Null}

TempInputs(now) ==
  {[NewEvent("temp.reading_recorded", "homeassistant", s,
             [EmptyEventPayload EXCEPT !.celsius = c], 0, now)
      EXCEPT !.occurred_at = t] :
     s \in Sensors, t \in ReadingTimes, c \in Celsius}

\* SpecTemp: readings of any sensor arrive in any order and are materialized
InitTemp == InitWith(0, 0)

NextTemp ==
  \/ \E e \in TempInputs(clock + 1) : AppendEvent(e)
  \/ FwdCycle
  \/ MatBoot
  \/ \E p \in Partitions : MatHandle(p)

SpecTemp == InitTemp /\ [][NextTemp]_vars

\* the readings of sensor s whose projection has been completed
ReadingsProcessed(s, d, a, topic) ==
  {e \in {JSONParse(topic[k[1]][k[2] + 1].value) : k \in DOMAIN a} :
     /\ e.event_type = "temp.reading_recorded"
     /\ e.subject_id = s
     /\ e.payload.celsius # Null}

\* the latest row holds a processed reading of maximal occurred_at
LatestIsMax(d, a, topic) ==
  \A s \in Sensors :
    LET R == ReadingsProcessed(s, d, a, topic) IN
    R # {} =>
      /\ HasRow(d.temperature_latest, s)
      /\ \A r \in R : r.occurred_at <= d.temperature_latest[s].occurred_at
      /\ \E r \in R :
           /\ r.occurred_at = d.temperature_latest[s].occurred_at
           /\ r.payload.celsius = d.temperature_latest[s].celsius

\* every processed reading is a row of the time series
EveryReadingInSeries(d, a, topic) ==
  \A s \in Sensors : \A r \in ReadingsProcessed(s, d, a, topic) :
    /\ HasRow(d.temperature_readings, <<s, r.occurred_at>>)
    /\ d.temperature_readings[<<s, r.occurred_at>>].celsius
         = r.payload.celsius

\* the time series holds one row per (sensor, occurred_at) processed
EveryTimestampInSeries(d, a, topic) ==
  \A s \in Sensors : \A r \in ReadingsProcessed(s, d, a, topic) :
    /\ HasRow(d.temperature_readings, <<s, r.occurred_at>>)
    /\ \E q \in ReadingsProcessed(s, d, a, topic) :
         /\ q.occurred_at = r.occurred_at
         /\ q.payload.celsius
              = d.temperature_readings[<<s, r.occurred_at>>].celsius

\* a reading that is not strictly newer leaves the latest row as it is
ReplacesOnlyIfNewer ==
  \A p \in Partitions :
    (/\ Materializes(p)
     /\ EventAt(p).event_type = "temp.reading_recorded"
     /\ HasRow(db.temperature_latest, EventAt(p).subject_id)
     /\ EventAt(p).occurred_at
          <= db.temperature_latest[EventAt(p).subject_id].occurred_at) =>
      db'.temperature_latest = db.temperature_latest

\* C33: for each sensor, after any sequence of temp.reading_recorded events
\* in any arrival order the latest row holds a reading of maximal
\* occurred_at, replaced only by a strictly newer reading, and every
\* reading is appended to the time series
C33_LatestAndEveryReading ==
  [][/\ LatestIsMax(db', applied', topicEvents')
     /\ ReplacesOnlyIfNewer
     /\ EveryReadingInSeries(db', applied', topicEvents')]_vars

\* C33 as the code has it: the latest row holds a reading of maximal
\* occurred_at, replaced only by a strictly newer reading, and the time
\* series holds one row per sensor and occurred_at: the first processed
\* reading of a timestamp stays, a later one with that timestamp is dropped
C33_LatestAndEveryTimestamp ==
  [][/\ LatestIsMax(db', applied', topicEvents')
     /\ ReplacesOnlyIfNewer
     /\ EveryTimestampInSeries(db', applied', topicEvents')]_vars

\* an older reading was processed after a newer one of the same sensor
C33_Witness ==
  \E s \in Sensors : \E p \in Partitions : \E j, k \in 0 .. MaxEvents :
    /\ j < k
    /\ Applied(p, j, "temp.reading_recorded")
    /\ Applied(p, k, "temp.reading_recorded")
    /\ JSONParse(MessageAt(p, j).value).subject_id = s
    /\ JSONParse(MessageAt(p, k).value).subject_id = s
    /\ JSONParse(MessageAt(p, j).value).payload.celsius # Null
    /\ JSONParse(MessageAt(p, k).value).payload.celsius # Null
    /\ JSONParse(MessageAt(p, k).value).occurred_at
         < JSONParse(MessageAt(p, j).value).occurred_at
    /\ db.temperature_latest[s].occurred_at
         = JSONParse(MessageAt(p, j).value).occurred_at

(* ---------------- router: which work an event triggers ---------------- *)
\* events the router may read: those of EventInputs, a link.added without
\* url, a content.fetched with empty text, and an event type it ignores
RouterInputs(s, now) ==
  EventInputs(s, now)
  \cup {NewEvent("link.added", "chrome", s, EmptyEventPayload, 0, now),
        emitContentFetched(s, [textContent |-> "", error |-> Null], 1, now),
        emitVisibilityChangedEvent(s, "private", now)}

\* SpecRouter: any events are appended and forwarded; the router and the
\* materializer read the events topic each at its own pace
InitRouter == InitWith(0, 0)

NextRouter ==
  \/ \E e \in RouterInputs("link:a", clock + 1) : AppendEvent(e)
  \/ FwdCycle
  \/ \E p \in Partitions : RouterHandle(p)
  \/ MatBoot
  \/ \E p \in Partitions : MatHandle(p)

SpecRouter == InitRouter /\ [][NextRouter]_vars

\* the router handles the record at its position of partition p
Routes(p) == routerPos'[p] = routerPos[p] + 1

RoutedEvent(p) == JSONParse(MessageAt(p, routerPos[p]).value)

\* this step appends one command to work topic t and nothing elsewhere
EmitsOnly(t) ==
  /\ Len(topicWork'[t]) = Len(topicWork[t]) + 1
  /\ \A u \in WorkTypes \ {t} : topicWork'[u] = topicWork[u]
  /\ topicDLQ' = topicDLQ

EmitsNothing == topicWork' = topicWork /\ topicDLQ' = topicDLQ

MetadataFilled(s) ==
  HasRow(db.link_metadata, s) /\ db.link_metadata[s].tags # <<>>

PublishStateClean(s) ==
  /\ HasRow(db.publish_state, s)
  /\ db.publish_state[s].dirty = FALSE
  /\ db.publish_state[s].published_version
       >= db.publish_state[s].desired_version

\* the rows of the routing table other than link.added
RoutesOtherEvents(p) ==
  LET e == RoutedEvent(p) IN
  /\ e.event_type = "content.fetched" =>
       IF /\ e.payload.fetch_error = Null
          /\ e.payload.text_content \notin {Null, ""}
          /\ ~MetadataFilled(e.subject_id)
         THEN EmitsOnly("enrich_link") ELSE EmitsNothing
  /\ e.event_type = "enrichment.completed" =>
       IF ~PublishStateClean(e.subject_id)
         THEN EmitsOnly("publish_link") ELSE EmitsNothing
  /\ e.event_type \notin {"link.added", "content.fetched",
                          "enrichment.completed", "work.failed"} =>
       EmitsNothing

InitAttempts == InitWith(1, MaxFwdFaults)

NextAttempts ==
  \/ Capture("link:a")
  \/ FwdCycle
  \/ FwdCycleMarkFails
  \/ \E p \in Partitions : RouterHandle(p)
  \/ \E r \in {x \in FetchResults : x.error = "Timeout"} : FetcherHandle(r)

SpecAttempts == InitAttempts /\ [][NextAttempts]_vars

\* C35: every work command on a work topic has 1 <= attempt <= max_attempts,
\* whatever events, duplicated or late, the router has read
C35_AttemptWithinBounds ==
  \A t \in WorkTypes : \A i \in 1 .. Len(topicWork[t]) :
    /\ 1 <= topicWork[t][i].attempt
    /\ topicWork[t][i].attempt <= topicWork[t][i].max_attempts

\* the router has read a work.failed event twice and emitted the last
\* attempt of a command more than once
C35_Witness ==
  \E t \in WorkTypes : \E i, j \in 1 .. Len(topicWork[t]) :
    /\ i < j
    /\ topicWork[t][i].attempt = topicWork[t][i].max_attempts
    /\ topicWork[t][j].attempt = topicWork[t][j].max_attempts
    /\ topicWork[t][i].triggered_by_event_id
         = topicWork[t][j].triggered_by_event_id

(* ---------------- publish state: versions ---------------- *)
\* C36: for every link with a publish_state row, published_version is at
\* most desired_version, and dirty is false exactly when the two are equal
C36_VersionsAndDirty ==
  \A s \in Subjects :
    HasRow(db.publish_state, s) =>
      /\ db.publish_state[s].published_version
           <= db.publish_state[s].desired_version
      /\ db.publish_state[s].dirty = FALSE
           <=> db.publish_state[s].published_version
                 = db.publish_state[s].desired_version

\* a publish.completed event has been materialized after an enrichment
C36_Witness ==
  /\ HasRow(db.publish_state, "link:a")
  /\ db.publish_state["link:a"].dirty = FALSE
  /\ db.publish_state["link:a"].published_version > 0
  /\ \E p \in Partitions : \E j, k \in 0 .. MaxEvents :
       /\ j < k
       /\ Applied(p, j, "enrichment.completed")
       /\ Applied(p, k, "publish.completed")

(* ---------------- startup: no message skipped ---------------- *)
\* the consumer's position on partition p has passed offset k
Passed(p, k) == matPc = "idle" /\ k < matPos[p]

\* C37: after the startup reconciliation no unprocessed message is skipped:
\* every record the consumer has passed is in the idempotency ledger, the
\* seek target computed for partition 0 moving no other partition
C37_NoUnprocessedSkipped ==
  \A p \in Partitions : \A k \in 0 .. MaxCaptures :
    Passed(p, k) => isAlreadyProcessed(db, p, k)

(* ---------------- consumer progress against the ledger ---------------- *)
\* the offsets of partition p recorded in the idempotency ledger of d
RecordedOffsets(d, p) ==
  {k[2] : k \in {x \in d.event_ingest_dedupe : x[1] = p}}

\* the consumer-progress row of p holds the highest recorded offset of p
LastOffsetIsLedgerMax(d, p) ==
  RecordedOffsets(d, p) # {} =>
    /\ HasRow(d.kafka_offsets, p)
    /\ d.kafka_offsets[p] = Max(RecordedOffsets(d, p))

\* a step keeps the progress row of p and does not lower its last_offset
LastOffsetKept(p) ==
  HasRow(db.kafka_offsets, p) =>
    /\ HasRow(db'.kafka_offsets, p)
    /\ db'.kafka_offsets[p] >= db.kafka_offsets[p]

\* C38: for every partition of the events topic, whenever the materializer
\* is between messages the consumer-progress row's last_offset equals the
\* highest offset in the idempotency ledger for that partition, and no step
\* lowers last_offset
C38_ProgressMatchesLedger ==
  /\ [](matPc = "idle" =>
          \A p \in Partitions : LastOffsetIsLedgerMax(db, p))
  /\ [][\A p \in Partitions : LastOffsetKept(p)]_vars

(* ---------------- router: a failure inside the handler ---------------- *)
\* the router's handler for this event awaits a read-model query or a
\* producer send, either of which can reject
RouterCanThrow(event) ==
  CASE event.event_type = "link.added" -> event.payload.url # NoUrl
    [] event.event_type = "content.fetched" ->
         /\ event.payload.fetch_error = Null
         /\ event.payload.text_content \notin {Null, ""}
    [] event.event_type = "enrichment.completed" -> TRUE
    [] event.event_type = "work.failed" ->
         event.payload.work_message # NoWork
    [] OTHER -> FALSE

\* handleMessage when processEvent rejects (the idempotency query or
\* producer.send fails): the catch block logs, eachMessage resolves and the
\* consumer moves past the record
RouterHandleFails(p) ==
  /\ faults > 0
  /\ routerPos[p] < Len(topicEvents[p])
  /\ RouterCanThrow(JSONParse(topicEvents[p][routerPos[p] + 1].value))
  /\ faults' = faults - 1
  /\ routerPos' = [routerPos EXCEPT ![p] = @ + 1]
  /\ UNCHANGED <<events, forwarded, clock, busVars, db, fwdVars, workerPos,
                 matVars, applied, captures, snapshot, requests, fetchVars>>

\* SpecRouterFaults: captured links are forwarded and routed, and the
\* router's handler may fail
InitRouterFaults == InitWith(MaxCaptures, MaxFwdFaults)

NextRouterFaults ==
  \/ \E s \in Subjects : Capture(s)
  \/ FwdCycle
  \/ \E p \in Partitions : RouterHandle(p)
  \/ \E p \in Partitions : RouterHandleFails(p)

SpecRouterFaults ==
  /\ InitRouterFaults
  /\ [][NextRouterFaults]_vars
  /\ WF_vars(FwdCycle)
  /\ WF_vars(\E p \in Partitions : RouterHandle(p))

\* the link.added event with this id is on the events topic
LinkAddedOnBus(id) ==
  \E p \in Partitions : \E k \in 1 .. Len(topicEvents[p]) :
    /\ JSONParse(topicEvents[p][k].value).id = id
    /\ JSONParse(topicEvents[p][k].value).event_type = "link.added"

\* a fetch_link command triggered by the event with this id was emitted
FetchEmittedFor(id) ==
  \E i \in 1 .. Len(topicWork["fetch_link"]) :
    topicWork["fetch_link"][i].triggered_by_event_id = id

\* C39: a transient failure while the router handles an event does not lose
\* the work: for every link.added event on the bus whose content was never
\* fetched, the fetch_link command it calls for is eventually emitted
C39_WorkEventuallyEmitted ==
  \A id \in 1 .. MaxCaptures : LinkAddedOnBus(id) ~> FetchEmittedFor(id)

(* ---------------- a known URL is submitted again ---------------- *)
\* the fetcher reports the content of the link added by event i
FetcherReports(i) ==
  /\ events[i].event_type = "link.added"
  /\ AppendEvent(emitContentFetched(
       events[i].subject_id, [textContent |-> "text", error |-> Null],
       events[i].id, clock + 1))

\* SpecResubmit: one client submits spellings of one URL, the fetcher
\* reports the content of a link that was added, and the events are
\* forwarded and materialized
InitResubmit == InitWith(2, 0)

NextResubmit ==
  \/ \E url \in ShareUrls : SharePost("c1", url)
  \/ ShareStep("c1")
  \/ \E i \in 1 .. Len(events) : FetcherReports(i)
  \/ FwdCycle
  \/ MatBoot
  \/ \E p \in Partitions : MatHandle(p)

SpecResubmit == InitResubmit /\ [][NextResubmit]_vars

\* the links upsert of client c's request meets an existing row
Resubmits(c) ==
  /\ requests[c].pc = "links"
  /\ requests'[c].pc = "events"
  /\ HasRow(db.links, requests[c].subject_id)

LinkStateKept(s) ==
  /\ db'.links[s].status = db.links[s].status
  /\ db'.links[s].visibility = db.links[s].visibility
  /\ db'.links[s].pinned = db.links[s].pinned

\* C40: submitting an already-known URL to the ingestion endpoint again
\* leaves the status, visibility and pinned flag of the existing link row
\* as they were
C40_ResubmitKeepsLinkState ==
  [][\A c \in Clients :
       Resubmits(c) => LinkStateKept(requests[c].subject_id)]_vars

====
